---- MODULE Spec2Model ----
(***************************************************************************)
(* Model of the DICOM study assembler of mri-reader                        *)
(* (src/src/lib/terminology.ts, lines 253-599: parseDicomFile,             *)
(* parseOverlays, unpackOverlayBits, parseStudyMetadata,                   *)
(* parseSeriesMetadata, loadDicomFromFolder), with the document decoders   *)
(* of dicom-sr, dicom-ko and dicom-pr and the 'read-file' IPC handler of   *)
(* electron/main.ts.  Spec is one load; SpecReload a load made twice;      *)
(* SpecContent and SpecOverlay run the decoders on their own.              *)
(*                                                                         *)
(* A file on disk is a record of what the byte reader (dicom-parser)       *)
(* yields for it: whether it can be read and decoded, and the value of     *)
(* each tag the assembler asks for.  An absent tag is the empty sequence,  *)
(* a present one a one-element sequence.  The path of a file is its index  *)
(* in the file list.                                                       *)
(***************************************************************************)
EXTENDS Integers, Sequences, FiniteSets, TLC

(***************************************************************************)
(* Optional values: dataSet.string(tag) and friends return undefined for   *)
(* an absent element.                                                      *)
(***************************************************************************)
None == <<>>

Some(v) == <<v>>

\* JavaScript's `a ?? d`
OrElse(o, d) == IF o = None THEN d ELSE o[1]

\* JavaScript's `!s` for an optional string: undefined or the empty string
Falsy(o) == o = None \/ o[1] = ""

(***************************************************************************)
(* Bounds of the model.                                                    *)
(***************************************************************************)
\* longest file list made of arbitrary files of the pool
MaxFiles == 3

\* longest tail of arbitrary files after a run of files without a study header
MaxTail == 2

\* most content items, over all depths, in the content tree handed to a decoder
MaxNodes == 3

\* most bytes in a packed overlay buffer
MaxPacked == 2

\* most pixels asked of the overlay unpacker
MaxPixels == 17

\* longest file list that is loaded twice
MaxReload == 2

\* most 32-bit floats in a Graphic Data element
MaxFloats == 4

\* largest Number of Graphic Points declared
MaxPoints == 2

\* most series of a study handed to the store
MaxSeries == 2

\* most images of a series handed to the store
MaxImages == 3

\* most calls of handleOpenFolder / handleOpenZip in flight together
MaxLoads == 2

\* most image requests Viewport makes in a run
MaxRequests == 3

\* most segments of a path handed to read-file / get-file-info
MaxSegments == 3

\* most entries of a directory scanned
MaxEntries == 2

\* the file limit of the scans of the model, in place of maxFilesPerStudy
ScanLimit == 2

(***************************************************************************)
(* Program constants.                                                      *)
(***************************************************************************)
\* terminology.ts:273 and main.ts:25, 500 * 1024 * 1024
maxFileSize == 524288000

\* terminology.ts:500, filePaths.slice(0, 10)
HeaderScanLimit == 10

\* main.ts 26: DICOM_SECURITY.maxFilesPerStudy
maxFilesPerStudy == 10000

\* dicom-sr.ts:7-27
SR_SOP_CLASSES ==
  { "1.2.840.10008.5.1.4.1.1.88.11", "1.2.840.10008.5.1.4.1.1.88.22",
    "1.2.840.10008.5.1.4.1.1.88.33", "1.2.840.10008.5.1.4.1.1.88.34",
    "1.2.840.10008.5.1.4.1.1.88.35", "1.2.840.10008.5.1.4.1.1.88.40",
    "1.2.840.10008.5.1.4.1.1.88.50", "1.2.840.10008.5.1.4.1.1.88.65",
    "1.2.840.10008.5.1.4.1.1.88.67", "1.2.840.10008.5.1.4.1.1.88.68",
    "1.2.840.10008.5.1.4.1.1.88.69", "1.2.840.10008.5.1.4.1.1.88.70",
    "1.2.840.10008.5.1.4.1.1.88.71", "1.2.840.10008.5.1.4.1.1.88.72",
    "1.2.840.10008.5.1.4.1.1.88.73", "1.2.840.10008.5.1.4.1.1.88.74",
    "1.2.840.10008.5.1.4.1.1.88.75", "1.2.840.10008.5.1.4.1.1.88.76" }

\* dicom-ko (part_000:150)
KO_SOP_CLASS == "1.2.840.10008.5.1.4.1.1.88.59"

\* dicom-pr (part_001:6-19)
PR_SOP_CLASSES ==
  { "1.2.840.10008.5.1.4.1.1.11.1", "1.2.840.10008.5.1.4.1.1.11.2",
    "1.2.840.10008.5.1.4.1.1.11.3", "1.2.840.10008.5.1.4.1.1.11.4",
    "1.2.840.10008.5.1.4.1.1.11.5", "1.2.840.10008.5.1.4.1.1.11.6",
    "1.2.840.10008.5.1.4.1.1.11.7", "1.2.840.10008.5.1.4.1.1.11.8",
    "1.2.840.10008.5.1.4.1.1.11.9", "1.2.840.10008.5.1.4.1.1.11.10",
    "1.2.840.10008.5.1.4.1.1.11.11", "1.2.840.10008.5.1.4.1.1.11.12" }

(***************************************************************************)
(* Content items of a structured report or key object document: the items  *)
(* of a Content Sequence (0040,A730).  dataSet is FALSE for a sequence     *)
(* item without a dataset; measuredValue is the first item of the Measured *)
(* Value Sequence, referencedSOP the Referenced SOP Instance UID of the    *)
(* first item of the Referenced SOP Sequence, each absent when the         *)
(* sequence has no such item; contentSequence holds the nested items.      *)
(***************************************************************************)
BaseItem ==
  [ dataSet         |-> TRUE,
    valueType       |-> None,
    conceptName     |-> None,
    textValue       |-> None,
    measuredValue   |-> None,
    codeMeaning     |-> None,
    referencedSOP   |-> None,
    contentSequence |-> None ]

NoDataSetItem == [BaseItem EXCEPT !.dataSet = FALSE]

NoValueTypeItem == [BaseItem EXCEPT !.conceptName = Some("Note"), !.textValue = Some("lost")]

TextItem ==
  [BaseItem EXCEPT !.valueType = Some("TEXT"), !.conceptName = Some("Impression"),
                   !.textValue = Some("normal")]

NumItem ==
  [BaseItem EXCEPT !.valueType = Some("NUM"), !.conceptName = Some("Size"),
                   !.measuredValue = Some([numericValue |-> Some("12"),
                                           unit         |-> Some("mm")])]

CodeItem == [BaseItem EXCEPT !.valueType = Some("CODE"), !.codeMeaning = Some("Benign")]

ImageItem(uid) == [BaseItem EXCEPT !.valueType = Some("IMAGE"), !.referencedSOP = Some(Some(uid))]

\* an IMAGE item with a concept name
KeyImageItem(uid) == [ImageItem(uid) EXCEPT !.conceptName = Some("Key")]

\* an IMAGE item whose Referenced SOP Sequence is absent
ImageNoRefItem == [BaseItem EXCEPT !.valueType = Some("IMAGE")]

ContainerItem == [BaseItem EXCEPT !.valueType = Some("CONTAINER")]

\* value types the decoder has no case for
DateItem == [BaseItem EXCEPT !.valueType = Some("DATE")]

NamedDateItem == [DateItem EXCEPT !.conceptName = Some("Study date")]

\* the item with these nested items
WithItems(item, items) == [item EXCEPT !.contentSequence = Some(items)]

(***************************************************************************)
(* Items of the Referenced Series Sequence (0008,1115) of a presentation   *)
(* state: each holds its Referenced Image Sequence (0008,1140), whose      *)
(* items hold a Referenced SOP Instance UID (0008,1155).                   *)
(***************************************************************************)
ReferencedImage(uid) == [ dataSet |-> TRUE, referencedSOP |-> uid ]

ReferencedSeries(imageItems) == [ dataSet |-> TRUE, referencedImages |-> imageItems ]

NoDataSetReference == [ dataSet |-> FALSE, referencedSOP |-> None, referencedImages |-> None ]

(***************************************************************************)
(* Graphic annotations of a presentation state: the items of the Graphic   *)
(* Annotation Sequence (0070,0001), each with a Graphic Object Sequence    *)
(* (0070,0009) and a Text Object Sequence (0070,0008).  A Graphic Data     *)
(* element (0070,0022) is the list of the floats its bytes hold, with the  *)
(* floats that the bytes after it, up to the end of the file, read as.  A  *)
(* position string is kept as what split and map(Number) make of it: a     *)
(* list of numbers, NaN being the absent number.                           *)
(***************************************************************************)
GraphicElement(floats, following) == [ floats |-> floats, following |-> following ]

GraphicObject(type, numPoints, element) ==
  [ dataSet |-> TRUE, graphicType |-> type, numPoints |-> numPoints, graphicData |-> element ]

TextObject(text, anchor, corner) ==
  [ dataSet |-> TRUE, textValue |-> text, anchorPoint |-> anchor, topLeft |-> corner ]

NoDataSetObject ==
  [ dataSet |-> FALSE, graphicType |-> None, numPoints |-> None, graphicData |-> None,
    textValue |-> None, anchorPoint |-> None, topLeft |-> None ]

AnnotationItem(graphicObjects, textObjects) ==
  [ dataSet |-> TRUE, graphicObjects |-> graphicObjects, textObjects |-> textObjects ]

\* a line of two points followed in the file by other elements
LineObject ==
  GraphicObject(Some("POLYLINE"), Some(2), Some(GraphicElement(<<10, 20, 30, 40>>, <<77>>)))

\* a label anchored at (5, 6)
LabelObject == TextObject(Some("lesion"), Some(<< Some(5), Some(6) >>), None)

(***************************************************************************)
(* Overlay planes.  A dataset has sixteen overlay group slots, 60xx for xx *)
(* = 00, 02, ..., 1E; a slot is the elements of its group: Overlay Rows    *)
(* (0010), Columns (0011), Type (0040), Origin (0050), Data (3000),        *)
(* Description (0022) and Label (1500).  The origin string is kept as what *)
(* split('\\').map(Number) makes of it: a list of numbers, NaN being the   *)
(* absent number.  Data is the list of the element's bytes.                *)
(***************************************************************************)
AbsentPlane ==
  [ rows |-> None, columns |-> None, type |-> None, origin |-> None, data |-> None,
    description |-> None, label |-> None ]

ExamplePlane == [AbsentPlane EXCEPT !.rows = Some(2), !.columns = Some(4), !.data = Some(<<11>>)]

ZeroRowsPlane == [ExamplePlane EXCEPT !.rows = Some(0)]

NoColumnsPlane == [ExamplePlane EXCEPT !.columns = None]

ZeroColumnsPlane == [ExamplePlane EXCEPT !.columns = Some(0)]

NoDataPlane == [ExamplePlane EXCEPT !.data = None]

\* a region-of-interest plane of 9 pixels with origin, description and label
RegionPlane ==
  [AbsentPlane EXCEPT !.rows = Some(3), !.columns = Some(3), !.type = Some("R"),
                      !.origin = Some(<< Some(5), Some(7) >>), !.data = Some(<<255, 1>>),
                      !.description = Some("ROI"), !.label = Some("L1")]

\* a plane whose origin does not parse and whose data element is empty
BadOriginPlane ==
  [AbsentPlane EXCEPT !.rows = Some(1), !.columns = Some(2),
                      !.origin = Some(<< Some(3), None >>), !.data = Some(<<>>)]

\* the sixteen slots of a dataset without overlays
NoOverlayPlanes == [k \in 1..16 |-> AbsentPlane]

(***************************************************************************)
(* The files of the model.  BaseImage is a well-formed MR image; the other *)
(* files differ from it in the tags named.                                 *)
(***************************************************************************)
MRImageStorage == "1.2.840.10008.5.1.4.1.1.4"

RawDataStorage == "1.2.840.10008.5.1.4.1.1.66"

BaseImage ==
  [ size              |-> 1000,
    readable          |-> TRUE,
    parses            |-> TRUE,
    sopClassUID       |-> Some(MRImageStorage),
    pixelData         |-> TRUE,
    sopInstanceUID    |-> Some("1.1"),
    seriesInstanceUID |-> Some("S.A"),
    studyInstanceUID  |-> Some("ST.1"),
    instanceNumber    |-> Some(2),
    seriesNumber      |-> Some(2),
    seriesDescription |-> Some("T1 AX"),
    bodyPart          |-> Some("HEAD"),
    modality          |-> Some("MR"),
    patientName       |-> Some(<<"D", "^", "J">>),
    patientId         |-> Some("P1"),
    rows              |-> Some(4),
    columns           |-> Some(4),
    contentSequence   |-> None,
    referencedSeries  |-> None,
    graphicAnnotations |-> None,
    overlayPlanes     |-> NoOverlayPlanes ]

\* second image of series S.A, lower instance number, other series description,
\* with an overlay plane in group 6000 and an incomplete one in group 6002
ImageA1 ==
  [BaseImage EXCEPT !.sopInstanceUID = Some("1.2"), !.instanceNumber = Some(1),
                    !.seriesDescription = Some("T1 AX 2"), !.bodyPart = None,
                    !.overlayPlanes = [NoOverlayPlanes EXCEPT ![1] = ExamplePlane,
                                                              ![2] = NoDataPlane]]

\* image of another series and another study, no instance number, at the size limit
ImageB ==
  [BaseImage EXCEPT !.sopInstanceUID = Some("1.3"), !.seriesInstanceUID = Some("S.B"),
                    !.studyInstanceUID = Some("ST.2"), !.instanceNumber = None,
                    !.seriesNumber = Some(1), !.seriesDescription = None,
                    !.patientName = Some(<<" ", "R", "^">>), !.patientId = None,
                    !.modality = None, !.size = maxFileSize]

\* image of series S.A without a study identifier, same SOP instance as BaseImage
ImageNoStudy ==
  [BaseImage EXCEPT !.studyInstanceUID = None, !.instanceNumber = Some(0),
                    !.seriesNumber = Some(5), !.seriesDescription = Some("LOC")]

\* image without a SOP class and without a SOP instance identifier
ImageNoSop ==
  [BaseImage EXCEPT !.sopClassUID = None, !.sopInstanceUID = None,
                    !.studyInstanceUID = Some("ST.2")]

\* a dataset of no known class and without pixel data
UnknownFile ==
  [BaseImage EXCEPT !.sopClassUID = Some(RawDataStorage), !.pixelData = FALSE,
                    !.sopInstanceUID = Some("1.7"), !.patientName = None]

\* structured report that also carries pixel data
ReportFile ==
  [BaseImage EXCEPT !.sopClassUID = Some("1.2.840.10008.5.1.4.1.1.88.11"),
                    !.sopInstanceUID = Some("2.1"), !.seriesInstanceUID = Some("S.R"),
                    !.contentSequence =
                       Some(<< WithItems(ContainerItem,
                                         << TextItem, CodeItem, NoValueTypeItem >>) >>)]

\* key object selection referencing one loaded and one absent image
KeyObjectFile ==
  [BaseImage EXCEPT !.sopClassUID = Some(KO_SOP_CLASS), !.pixelData = FALSE,
                    !.sopInstanceUID = Some("3.1"), !.seriesInstanceUID = Some("S.K"),
                    !.contentSequence =
                       Some(<< ImageItem("1.1"),
                               WithItems(ContainerItem, << ImageItem("9.9") >>) >>)]

\* key object selection that resolves no reference
KeyObjectEmpty ==
  [KeyObjectFile EXCEPT !.sopInstanceUID = Some("3.2"),
                        !.contentSequence = Some(<< TextItem >>)]

\* presentation state with pixel data and without a series identifier
PresentationFile ==
  [BaseImage EXCEPT !.sopClassUID = Some("1.2.840.10008.5.1.4.1.1.11.1"),
                    !.sopInstanceUID = Some("4.1"), !.seriesInstanceUID = None,
                    !.referencedSeries =
                       Some(<< NoDataSetReference,
                               ReferencedSeries(Some(<< ReferencedImage(Some("1.2")) >>)) >>),
                    !.graphicAnnotations =
                       Some(<< AnnotationItem(Some(<< NoDataSetObject, LineObject >>),
                                              Some(<< LabelObject >>)) >>)]

\* presentation state that resolves no reference: a series without images and
\* a series whose image items carry no SOP instance identifier
PresentationEmpty ==
  [PresentationFile EXCEPT !.sopInstanceUID = Some("4.2"),
                           !.referencedSeries =
                              Some(<< ReferencedSeries(None),
                                      ReferencedSeries(Some(<< NoDataSetReference,
                                                               ReferencedImage(None) >>)) >>)]

\* bytes that dicom-parser rejects
CorruptFile == [BaseImage EXCEPT !.parses = FALSE]

\* a file that cannot be read
UnreadableFile == [BaseImage EXCEPT !.readable = FALSE]

\* a well-formed image one byte over the size limit
OversizeFile ==
  [BaseImage EXCEPT !.size = maxFileSize + 1, !.sopInstanceUID = Some("1.4"),
                    !.seriesInstanceUID = Some("S.C"), !.studyInstanceUID = Some("ST.3")]

FilePool ==
  { BaseImage, ImageA1, ImageB, ImageNoStudy, ImageNoSop, UnknownFile, ReportFile,
    KeyObjectFile, KeyObjectEmpty, PresentationFile, PresentationEmpty, CorruptFile,
    UnreadableFile, OversizeFile }

\* files that give no study header, used to fill the first places of a list
PadPool == { ImageNoStudy, CorruptFile }

(***************************************************************************)
(* main.ts 466-481, ipcMain.handle('read-file'), reached through           *)
(* window.electronAPI.readFile (preload.ts:9): stat and readFile reject    *)
(* for a file that cannot be read, and a file over the size limit is       *)
(* rejected before its bytes are read.  (The paths of a load come from the *)
(* folder or ZIP the user opened, so isPathAllowed accepts them.)          *)
(***************************************************************************)
ReadFileUnlimited(f) ==
  [ threw      |-> ~f.readable,
    byteLength |-> f.size ]

ReadFile(f) ==
  [ threw      |-> ~f.readable \/ f.size > maxFileSize,
    byteLength |-> f.size ]

\* dicom-sr.ts 32-36
isSRFile(f) ==
  IF Falsy(f.sopClassUID) THEN FALSE ELSE f.sopClassUID[1] \in SR_SOP_CLASSES

\* part_000 155-158
isKOFile(f) == f.sopClassUID = Some(KO_SOP_CLASS)

\* part_001 24-28
isPRFile(f) ==
  IF Falsy(f.sopClassUID) THEN FALSE ELSE f.sopClassUID[1] \in PR_SOP_CLASSES

\* the pixel-data test made before the SOP class tests
ClassifyPixelDataFirst(f) ==
  IF ~f.pixelData THEN "Unknown"
  ELSE IF isSRFile(f) THEN "StructuredReport"
  ELSE IF isKOFile(f) THEN "KeyObjectSelection"
  ELSE IF isPRFile(f) THEN "PresentationState"
  ELSE "Image"

(***************************************************************************)
(* terminology.ts 301-325: the order in which parseDicomFile tests a       *)
(* decoded dataset.                                                        *)
(***************************************************************************)
Classify(f) ==
  IF isSRFile(f) THEN "StructuredReport"
  ELSE IF isKOFile(f) THEN "KeyObjectSelection"
  ELSE IF isPRFile(f) THEN "PresentationState"
  ELSE IF ~f.pixelData THEN "Unknown"
  ELSE "Image"

(***************************************************************************)
(* Results of parsing one file.  type "null" is the code's null, type      *)
(* "throw" an exception leaving the function; warn is what the function    *)
(* writes with console.warn.                                               *)
(***************************************************************************)
NullResult(w) == [type |-> "null", warn |-> w]

ThrowResult == [type |-> "throw", warn |-> None]

\* JavaScript's `s || d` for a string
OrDefault(s, d) == IF s = "" THEN d ELSE s

\* the items of a Content Sequence element, none when `?.items` is undefined
ItemsOf(ds) == OrElse(ds.contentSequence, <<>>)

RECURSIVE Flatten(_)
\* the concatenation of the lists of a list: what a loop has pushed when
\* turn k pushes the elements of lists[k]
Flatten(lists) ==
  IF lists = <<>> THEN <<>> ELSE Head(lists) \o Flatten(Tail(lists))

\* dicom-sr.ts 192-203
getConceptName(item) == OrElse(item.conceptName, "")

\* no value for a value type without a case of its own
ValueOfKnownOnly(item, valueType, conceptName) ==
  CASE valueType = "TEXT" ->
         [ value |-> OrElse(item.textValue, ""), unit |-> None, referencedImageUID |-> None ]
    [] valueType = "NUM" ->
         IF item.measuredValue = None
         THEN [ value |-> "", unit |-> None, referencedImageUID |-> None ]
         ELSE [ value |-> OrElse(item.measuredValue[1].numericValue, ""),
                unit  |-> item.measuredValue[1].unit,
                referencedImageUID |-> None ]
    [] valueType = "CODE" ->
         [ value |-> OrElse(item.codeMeaning, ""), unit |-> None, referencedImageUID |-> None ]
    [] valueType = "IMAGE" ->
         IF item.referencedSOP = None
         THEN [ value |-> "", unit |-> None, referencedImageUID |-> None ]
         ELSE [ value |-> OrDefault(conceptName, "Image Reference"), unit |-> None,
                referencedImageUID |-> item.referencedSOP[1] ]
    [] valueType = "CONTAINER" ->
         [ value |-> OrDefault(conceptName, "Container"), unit |-> None,
           referencedImageUID |-> None ]
    [] OTHER ->
         [ value |-> "", unit |-> None, referencedImageUID |-> None ]

\* dicom-sr.ts 111-161: the value, unit and image reference of an item by value type
ValueOf(item, valueType, conceptName) ==
  CASE valueType = "TEXT" ->
         [ value |-> OrElse(item.textValue, ""), unit |-> None, referencedImageUID |-> None ]
    [] valueType = "NUM" ->
         IF item.measuredValue = None
         THEN [ value |-> "", unit |-> None, referencedImageUID |-> None ]
         ELSE [ value |-> OrElse(item.measuredValue[1].numericValue, ""),
                unit  |-> item.measuredValue[1].unit,
                referencedImageUID |-> None ]
    [] valueType = "CODE" ->
         [ value |-> OrElse(item.codeMeaning, ""), unit |-> None, referencedImageUID |-> None ]
    [] valueType = "IMAGE" ->
         IF item.referencedSOP = None
         THEN [ value |-> "", unit |-> None, referencedImageUID |-> None ]
         ELSE [ value |-> OrDefault(conceptName, "Image Reference"), unit |-> None,
                referencedImageUID |-> item.referencedSOP[1] ]
    [] valueType = "CONTAINER" ->
         [ value |-> OrDefault(conceptName, "Container"), unit |-> None,
           referencedImageUID |-> None ]
    [] OTHER ->
         [ value |-> OrDefault(conceptName, valueType), unit |-> None,
           referencedImageUID |-> None ]

\* an empty list of children kept as it is
KeepChildren(children) == Some(children)

\* dicom-sr.ts 174-176: an empty list of children becomes undefined
CollapseChildren(children) == IF Len(children) = 0 THEN None ELSE Some(children)

RECURSIVE parseContentItem(_)
\* dicom-sr.ts 98-187; the result is the list of findings the item yields,
\* empty for the code's null
parseContentItem(item) ==
  IF ~item.dataSet THEN <<>>
  ELSE IF Falsy(item.valueType) THEN <<>>
  ELSE
    LET valueType   == item.valueType[1]
        conceptName == getConceptName(item)
        v           == ValueOf(item, valueType, conceptName)
        children    == IF item.contentSequence = None THEN None
                       ELSE LET childItems == item.contentSequence[1] IN
                              CollapseChildren(
                                Flatten([k \in 1..Len(childItems) |->
                                           parseContentItem(childItems[k])]))
    IN << [ conceptName        |-> OrDefault(conceptName, "Finding"),
            value              |-> v.value,
            valueType          |-> valueType,
            unit               |-> v.unit,
            children           |-> children,
            referencedImageUID |-> v.referencedImageUID ] >>

RECURSIVE Reverse(_)
Reverse(items) == IF items = <<>> THEN <<>> ELSE Append(Reverse(Tail(items)), Head(items))

\* the findings of the items taken from the last to the first
parseContentSequenceReversed(ds) ==
  LET items == Reverse(ItemsOf(ds)) IN
    Flatten([k \in 1..Len(items) |-> parseContentItem(items[k])])

\* dicom-sr.ts 76-93
parseContentSequence(ds) ==
  LET items == ItemsOf(ds) IN
    Flatten([k \in 1..Len(items) |-> parseContentItem(items[k])])

\* dicom-sr.ts 41-71
parseSR(f) ==
  IF Falsy(f.sopInstanceUID) \/ Falsy(f.seriesInstanceUID)
  THEN NullResult(Some("Missing UIDs in SR file"))
  ELSE [ type |-> "report", warn |-> None,
         data |-> [ sopInstanceUID    |-> f.sopInstanceUID[1],
                    seriesInstanceUID |-> f.seriesInstanceUID[1],
                    findings          |-> parseContentSequence(f) ] ]

\* part_000 246-256 and 265-274: what one item adds to the key images
ImageReference(item) ==
  IF item.valueType = Some("IMAGE") /\ item.referencedSOP # None
       /\ ~Falsy(item.referencedSOP[1])
  THEN << item.referencedSOP[1][1] >>
  ELSE <<>>

\* part_000 258-276: the nested loop, over the items directly under a top-level item
NestedReferences(item) ==
  IF ~item.dataSet THEN <<>> ELSE ImageReference(item)

\* part_000 235-281
parseReferencedImages(ds) ==
  LET TopLevel(item) ==
        IF ~item.dataSet THEN <<>>
        ELSE ImageReference(item)
               \o Flatten([n \in 1..Len(ItemsOf(item)) |->
                              NestedReferences(ItemsOf(item)[n])])
  IN Flatten([k \in 1..Len(ItemsOf(ds)) |-> TopLevel(ItemsOf(ds)[k])])

\* a key object document kept although it resolves no reference
parseKOKeepEmpty(f) ==
  IF Falsy(f.sopInstanceUID)
  THEN NullResult(Some("Missing SOP Instance UID in KO file"))
  ELSE [ type |-> "keyObject", warn |-> None,
         data |-> [ sopInstanceUID |-> f.sopInstanceUID[1],
                    keyImages      |-> parseReferencedImages(f) ] ]

\* part_000 163-194
parseKO(f) ==
  IF Falsy(f.sopInstanceUID)
  THEN NullResult(Some("Missing SOP Instance UID in KO file"))
  ELSE LET keyImages == parseReferencedImages(f) IN
    IF Len(keyImages) = 0
    THEN NullResult(Some("No key images found in KO file"))
    ELSE [ type |-> "keyObject", warn |-> None,
           data |-> [ sopInstanceUID |-> f.sopInstanceUID[1],
                      keyImages      |-> keyImages ] ]

\* part_001 74-102, parseReferencedImages of dicom-pr
parseReferencedImagesPR(ds) ==
  LET ImageUID(imageItem) ==
        IF ~imageItem.dataSet \/ Falsy(imageItem.referencedSOP) THEN <<>>
        ELSE << imageItem.referencedSOP[1] >>
      SeriesUIDs(seriesItem) ==
        IF ~seriesItem.dataSet THEN <<>>
        ELSE LET imageItems == OrElse(seriesItem.referencedImages, <<>>) IN
               Flatten([n \in 1..Len(imageItems) |-> ImageUID(imageItems[n])])
      seriesItems == OrElse(ds.referencedSeries, <<>>)
  IN Flatten([k \in 1..Len(seriesItems) |-> SeriesUIDs(seriesItems[k])])

\* results of the graphic decoders: a list, or an exception leaving the function
Gave(list) == [ threw |-> FALSE, list |-> list ]

Threw == [ threw |-> TRUE, list |-> <<>> ]

\* the lists of the results one after the other, or the exception of the
\* first result that threw
Gather(results) ==
  IF \E k \in 1..Len(results) : results[k].threw THEN Threw
  ELSE Gave(Flatten([k \in 1..Len(results) |-> results[k].list]))

(***************************************************************************)
(* part_001:279, objectDS.float('x00700022', i) of dicom-parser: undefined *)
(* for an element without bytes; otherwise the four bytes at the element's *)
(* offset + 4i of the file's byte array, whether or not they lie inside    *)
(* the element, and an exception when they reach past the end of the       *)
(* array.  The list given is the value, empty for undefined.               *)
(***************************************************************************)
floatAt(objectDS, index) ==
  LET element == objectDS.graphicData[1] IN
    IF Len(element.floats) = 0 THEN Gave(<<>>)
    ELSE IF index < Len(element.floats) THEN Gave(<< element.floats[index + 1] >>)
    ELSE IF index < Len(element.floats) + Len(element.following)
    THEN Gave(<< element.following[index - Len(element.floats) + 1] >>)
    ELSE Threw

\* part_001 259-286
parseGraphicData(objectDS) ==
  IF objectDS.graphicData = None THEN Gave(<<>>)
  ELSE LET numPoints == OrElse(objectDS.numPoints, 0) IN
    IF numPoints = 0 THEN Gave(<<>>)
    ELSE Gather([k \in 1..(numPoints * 2) |-> floatAt(objectDS, k - 1)])

\* part_001 183-200
MappedType(graphicType) ==
  CASE graphicType = "POINT"        -> "POINT"
    [] graphicType = "POLYLINE"     -> "POLYLINE"
    [] graphicType = "INTERPOLATED" -> "POLYLINE"
    [] graphicType = "CIRCLE"       -> "CIRCLE"
    [] graphicType = "ELLIPSE"      -> "ELLIPSE"
    [] OTHER                        -> "POLYLINE"

\* part_001 177-210; the list given holds the annotation, and is empty for null
parseGraphicObject(objectDS) ==
  IF Falsy(objectDS.graphicType) THEN Gave(<<>>)
  ELSE LET graphicData == parseGraphicData(objectDS) IN
    IF graphicData.threw THEN Threw
    ELSE IF Len(graphicData.list) = 0 THEN Gave(<<>>)
    ELSE Gave(<< [ graphicType |-> MappedType(objectDS.graphicType[1]),
                   graphicData |-> graphicData.list,
                   textValue   |-> None ] >>)

\* part_001 225-229 and 235-239: the numbers of a position string, none when
\* the string is absent, has fewer than two parts or a part that is no number
PositionOf(position) ==
  IF position = None THEN <<>>
  ELSE LET parts == position[1] IN
         IF Len(parts) >= 2 /\ \A k \in 1..Len(parts) : parts[k] # None
         THEN [k \in 1..Len(parts) |-> parts[k][1]]
         ELSE <<>>

\* a text object dropped when neither position is given
parseTextObjectPositioned(textDS) ==
  IF Falsy(textDS.textValue) THEN <<>>
  ELSE LET anchor == PositionOf(textDS.anchorPoint)
           corner == PositionOf(textDS.topLeft)
       IN IF Len(anchor) = 0 /\ Len(corner) = 0 THEN <<>>
          ELSE << [ graphicType |-> "TEXT",
                    graphicData |-> IF Len(anchor) # 0 THEN anchor ELSE corner,
                    textValue   |-> textDS.textValue ] >>

\* part_001 215-253; the list given holds the annotation, and is empty for null
parseTextObject(textDS) ==
  IF Falsy(textDS.textValue) THEN <<>>
  ELSE LET anchor == PositionOf(textDS.anchorPoint)
           corner == PositionOf(textDS.topLeft)
       IN << [ graphicType |-> "TEXT",
               graphicData |-> IF Len(anchor) # 0 THEN anchor
                               ELSE IF Len(corner) # 0 THEN corner
                               ELSE << 0, 0 >>,
               textValue   |-> textDS.textValue ] >>

\* part_001 131-172
parseGraphicAnnotations(ds) ==
  LET ObjectsOf(seq) == OrElse(seq, <<>>)
      Graphic(objectDS) == IF ~objectDS.dataSet THEN Gave(<<>>)
                           ELSE parseGraphicObject(objectDS)
      Text(textDS) == IF ~textDS.dataSet THEN Gave(<<>>) ELSE Gave(parseTextObject(textDS))
      Annotation(item) ==
        IF ~item.dataSet THEN Gave(<<>>)
        ELSE Gather([k \in 1..Len(ObjectsOf(item.graphicObjects)) |->
                       Graphic(ObjectsOf(item.graphicObjects)[k])]
                    \o [k \in 1..Len(ObjectsOf(item.textObjects)) |->
                          Text(ObjectsOf(item.textObjects)[k])])
      items == OrElse(ds.graphicAnnotations, <<>>)
  IN Gather([k \in 1..Len(items) |-> Annotation(items[k])])

\* part_001 33-69
parsePR(f) ==
  IF Falsy(f.sopInstanceUID)
  THEN NullResult(Some("Missing SOP Instance UID in PR file"))
  ELSE LET referencedImageUIDs == parseReferencedImagesPR(f) IN
    IF Len(referencedImageUIDs) = 0
    THEN NullResult(Some("No referenced images in PR file"))
    ELSE LET graphicAnnotations == parseGraphicAnnotations(f) IN
      IF graphicAnnotations.threw THEN ThrowResult
      ELSE [ type |-> "presentationState", warn |-> None,
             data |-> [ sopInstanceUID      |-> f.sopInstanceUID[1],
                        referencedImageUIDs |-> referencedImageUIDs,
                        graphicAnnotations  |->
                          IF Len(graphicAnnotations.list) > 0
                          THEN Some(graphicAnnotations.list) ELSE None ] ]

\* JavaScript's `!n` for an optional number: undefined or 0
Unset(o) == o = None \/ o[1] = 0

\* terminology.ts 374: the group numbers 0x6000, 0x6002, ..., 0x601E
OverlayGroups == [k \in 1..16 |-> 24576 + 2 * (k - 1)]

\* bit k of byte b: (b >> k) & 1
Bit(b, k) == (b \div (2 ^ k)) % 2

\* the pixels unpacked from the high bit of each byte down
unpackOverlayBitsHighFirst(packed, numPixels) ==
  [ p \in 1..numPixels |->
      LET byteIndex == (p - 1) \div 8
          bitIndex  == (p - 1) % 8
      IN IF byteIndex < Len(packed) THEN Bit(packed[byteIndex + 1], 7 - bitIndex) ELSE 0 ]

\* the shifted byte stored without the mask
unpackOverlayBitsUnmasked(packed, numPixels) ==
  [ p \in 1..numPixels |->
      LET byteIndex == (p - 1) \div 8
          bitIndex  == (p - 1) % 8
      IN IF byteIndex < Len(packed) THEN packed[byteIndex + 1] \div (2 ^ bitIndex) ELSE 0 ]

\* terminology.ts 425-436; pixel i of the code is element i + 1 here, and a
\* Uint8Array is zero until written
unpackOverlayBits(packed, numPixels) ==
  [ p \in 1..numPixels |->
      LET byteIndex == (p - 1) \div 8
          bitIndex  == (p - 1) % 8
      IN IF byteIndex < Len(packed) THEN Bit(packed[byteIndex + 1], bitIndex) ELSE 0 ]

\* terminology.ts 384-391
OriginOf(plane) ==
  IF plane.origin = None THEN << 1, 1 >>
  ELSE LET parts == plane.origin[1] IN
         IF Len(parts) >= 2 /\ \A k \in 1..Len(parts) : parts[k] # None
         THEN << parts[1][1], parts[2][1] >>
         ELSE << 1, 1 >>

\* a plane returned although its data element is absent
PlaneOfWithoutData(ds, k) ==
  LET plane == ds.overlayPlanes[k] IN
    IF Unset(plane.rows) THEN <<>>
    ELSE IF Unset(plane.columns) THEN <<>>
    ELSE << [ group         |-> OverlayGroups[k],
              rows          |-> plane.rows[1],
              columns       |-> plane.columns[1],
              type          |-> OrElse(plane.type, "G"),
              origin        |-> OriginOf(plane),
              bitsAllocated |-> 1,
              data          |-> unpackOverlayBits(OrElse(plane.data, <<>>),
                                                  plane.rows[1] * plane.columns[1]),
              description   |-> plane.description,
              label         |-> plane.label ] >>

\* terminology.ts 375-419: one turn of the loop over the groups, giving the
\* overlays it pushes
PlaneOf(ds, k) ==
  LET plane == ds.overlayPlanes[k] IN
    IF Unset(plane.rows) THEN <<>>
    ELSE IF Unset(plane.columns) THEN <<>>
    ELSE IF plane.data = None THEN <<>>
    ELSE << [ group         |-> OverlayGroups[k],
              rows          |-> plane.rows[1],
              columns       |-> plane.columns[1],
              type          |-> OrElse(plane.type, "G"),
              origin        |-> OriginOf(plane),
              bitsAllocated |-> 1,
              data          |-> unpackOverlayBits(plane.data[1],
                                                  plane.rows[1] * plane.columns[1]),
              description   |-> plane.description,
              label         |-> plane.label ] >>

\* terminology.ts 370-423
parseOverlays(ds) ==
  Flatten([k \in 1..16 |-> PlaneOf(ds, k)])

\* terminology.ts 327-363: the image branch of parseDicomFile
parseImage(f, filePath) ==
  IF Falsy(f.sopInstanceUID) \/ Falsy(f.seriesInstanceUID)
  THEN NullResult(Some("Missing UIDs, skipping"))
  ELSE [ type |-> "image", warn |-> None,
         data |-> [ sopInstanceUID    |-> f.sopInstanceUID[1],
                    seriesInstanceUID |-> f.seriesInstanceUID[1],
                    instanceNumber    |-> OrElse(f.instanceNumber, 0),
                    filePath          |-> filePath,
                    rows              |-> OrElse(f.rows, 0),
                    columns           |-> OrElse(f.columns, 0),
                    overlays          |-> IF Len(parseOverlays(f)) > 0
                                          THEN Some(parseOverlays(f)) ELSE None ] ]

\* terminology.ts 288-363: the body of parseDicomFile's try block
parseDicomFileBody(f, filePath) ==
  LET buffer == ReadFile(f) IN
  IF buffer.threw THEN ThrowResult
  ELSE IF buffer.byteLength > maxFileSize
  THEN NullResult(Some("File too large, skipping"))
  ELSE IF ~f.parses THEN ThrowResult
  ELSE CASE Classify(f) = "StructuredReport"   -> parseSR(f)
         [] Classify(f) = "KeyObjectSelection" -> parseKO(f)
         [] Classify(f) = "PresentationState"  -> parsePR(f)
         [] Classify(f) = "Unknown"            -> NullResult(None)
         [] OTHER                              -> parseImage(f, filePath)

\* parseDicomFile without its catch
parseDicomFileUncaught(f, filePath) == parseDicomFileBody(f, filePath)

\* terminology.ts 286-368: parseDicomFile, the try block and its catch
parseDicomFile(f, filePath) ==
  LET r == parseDicomFileBody(f, filePath) IN
  IF r.type = "throw" THEN NullResult(Some("Failed to parse DICOM file")) ELSE r

\* terminology.ts 450: .replace(/\^/g, ' ')
ReplaceCarets(s) == [k \in 1..Len(s) |-> IF s[k] = "^" THEN " " ELSE s[k]]

\* terminology.ts 450: .trim()
Trim(s) ==
  LET solid == {k \in 1..Len(s) : s[k] # " "} IN
  IF solid = {} THEN <<>>
  ELSE SubSeq(s, CHOOSE k \in solid : \A m \in solid : k <= m,
                 CHOOSE k \in solid : \A m \in solid : k >= m)

\* terminology.ts 439-461
parseStudyMetadata(f) ==
  IF ReadFile(f).threw \/ ~f.parses THEN None
  ELSE IF Falsy(f.studyInstanceUID) THEN None
  ELSE Some([ studyInstanceUID |-> f.studyInstanceUID[1],
              patientName      |-> Trim(ReplaceCarets(OrElse(f.patientName,
                                     <<"U", "n", "k", "n", "o", "w", "n">>))),
              patientId        |-> OrElse(f.patientId, ""),
              modality         |-> OrElse(f.modality, "") ])

\* terminology.ts 464-485
parseSeriesMetadata(f) ==
  IF ReadFile(f).threw \/ ~f.parses THEN None
  ELSE IF Falsy(f.seriesInstanceUID) \/ Falsy(f.studyInstanceUID) THEN None
  ELSE Some([ seriesInstanceUID |-> f.seriesInstanceUID[1],
              studyInstanceUID  |-> f.studyInstanceUID[1],
              seriesNumber      |-> OrElse(f.seriesNumber, 0),
              seriesDescription |-> OrElse(f.seriesDescription, ""),
              bodyPart          |-> f.bodyPart,
              modality          |-> OrElse(f.modality, "") ])

(***************************************************************************)
(* seriesMap (terminology.ts 514): a Map keeps its entries in insertion    *)
(* order; here a sequence of entries [key, series].                        *)
(***************************************************************************)
MapHas(m, k) == \E e \in 1..Len(m) : m[e].key = k

\* Map.prototype.set: a key already present keeps its place
MapSet(m, k, v) ==
  IF MapHas(m, k)
  THEN [e \in 1..Len(m) |-> IF m[e].key = k THEN [key |-> k, series |-> v] ELSE m[e]]
  ELSE Append(m, [key |-> k, series |-> v])

(***************************************************************************)
(* Array.prototype.sort with the comparator (a, b) => a[fld] - b[fld]      *)
(* (terminology.ts 569, 573-575): a stable sort by an integer key.         *)
(***************************************************************************)
InsertSorted(s, x, fld) ==
  LET k == Cardinality({j \in 1..Len(s) : s[j][fld] <= x[fld]}) IN
  SubSeq(s, 1, k) \o <<x>> \o SubSeq(s, k + 1, Len(s))

RECURSIVE SortByField(_, _)
SortByField(s, fld) ==
  IF Len(s) = 0 THEN <<>>
  ELSE InsertSorted(SortByField(SubSeq(s, 1, Len(s) - 1), fld), s[Len(s)], fld)

(***************************************************************************)
(* State of one call of loadDicomFromFolder (terminology.ts 488-599).      *)
(***************************************************************************)
VARIABLES
  files,                \* the files behind filePaths; a file's path is its index
  pc,                   \* "start", "header", "ingest" or "done"
  h,                    \* files examined by the header loop (500-503)
  studyMetadata,        \* 499
  i,                    \* files taken by the ingestion loop (516)
  images,               \* 510
  reports,              \* 511
  keyObjectSelections,  \* 512
  presentationStates,   \* 513
  seriesMap,            \* 514
  progress,             \* the events handed to onProgress, in order
  console,              \* the console.warn lines, in order
  classified,           \* per file taken by parseDicomFile: its path, kind and result type
  outcome,              \* "pending", "Empty" (null), "Study" or "Threw"
  result,               \* the Study returned, when outcome = "Study"
  run,                  \* 1 in the first call of loadDicomFromFolder, 2 in the second
  first,                \* what the first call returned, once the second has begun
  op,                   \* the decoder last run on its own ("none" before any)
  input,                \* the dataset handed to that decoder
  output,               \* what the decoder returned
  store,                \* the state held by useViewerStore (store.ts 94-103)
  listeners,            \* the callbacks registered with onMenuAction, by owner, in order
  isInitialized,        \* Viewport's state of that name (ErrorDisplay.tsx)
  loads,                \* the calls of handleOpenFolder / handleOpenZip not yet returned
  delivered,            \* the last menu event the main process sent, and what it did
  loadRequestIdRef,     \* Viewport's request counter (ErrorDisplay.tsx 108)
  requests,             \* the calls of Viewport's load(), in the order they began
  stack,                \* the file whose image the viewport stack holds, if any
  filePathToImageId,    \* the file paths with a cached image id (cornerstone.ts)
  isLoadingImage,       \* Viewport's state of that name
  allowedBasePaths,     \* main.ts 15
  dialogs,              \* the directories chosen in a dialog or created for an extraction
  access                \* what the last read-file / get-file-info call did

loadVars ==
  << files, pc, h, studyMetadata, i, images, reports, keyObjectSelections,
     presentationStates, seriesMap, progress, console, classified, outcome, result,
     run, first >>

reloadVars == << run, first >>

decoderVars == << op, input, output >>

rendererVars == << listeners, isInitialized, loads, delivered >>

viewportVars == << loadRequestIdRef, requests, stack, filePathToImageId, isLoadingImage >>

mainVars == << allowedBasePaths, dialogs, access >>

appVars == << store, rendererVars, viewportVars, mainVars >>

vars == << loadVars, decoderVars, appVars >>

\* store.ts 66-70
DEFAULT_SETTINGS == [ expertMode |-> FALSE, showTooltips |-> TRUE, hasSeenOnboarding |-> FALSE ]

\* the state useViewerStore is created with (store.ts 94-103), the settings
\* being the ones loadSettings returns
InitialState(loaded) ==
  [ view              |-> "dashboard",
    study             |-> None,
    currentSeriesId   |-> None,
    currentSliceIndex |-> 0,
    isLoading         |-> FALSE,
    loadingProgress   |-> None,
    error             |-> None,
    settings          |-> loaded ]

\* no component is mounted and no handler has been called
RendererIdle ==
  /\ listeners = <<>>
  /\ isInitialized = FALSE
  /\ loads = <<>>
  /\ delivered = None

\* no image has been requested
ViewportIdle ==
  /\ loadRequestIdRef = 0
  /\ requests = <<>>
  /\ stack = None
  /\ filePathToImageId = {}
  /\ isLoadingImage = FALSE

\* the main process has served no call
MainIdle ==
  /\ allowedBasePaths = {}
  /\ dialogs = {}
  /\ access = None

\* the application is not running
AppIdle ==
  /\ store = InitialState(DEFAULT_SETTINGS)
  /\ RendererIdle
  /\ ViewportIdle
  /\ MainIdle

accumulators == << images, reports, keyObjectSelections, presentationStates, seriesMap >>

\* the file lists of the model: any list of up to MaxFiles files, and lists
\* that open with HeaderScanLimit - 1 or HeaderScanLimit copies of a file
\* without a study header, followed by up to MaxTail files
FileLists ==
  UNION { [1..n -> FilePool] : n \in 0..MaxFiles }
  \cup { [k \in 1..(p + n) |-> IF k <= p THEN pad ELSE tail[k - p]] :
           <<p, pad, n, tail>> \in
             { <<p, pad, n, tail>> \in
                 {HeaderScanLimit - 1, HeaderScanLimit} \X PadPool \X (0..MaxTail)
                   \X UNION { [1..n -> FilePool] : n \in 0..MaxTail } :
                 Len(tail) = n } }

Init ==
  /\ AppIdle
  /\ files \in FileLists
  /\ pc = "start"
  /\ h = 0
  /\ studyMetadata = None
  /\ i = 0
  /\ images = <<>>
  /\ reports = <<>>
  /\ keyObjectSelections = <<>>
  /\ presentationStates = <<>>
  /\ seriesMap = <<>>
  /\ progress = <<>>
  /\ console = <<>>
  /\ classified = <<>>
  /\ outcome = "pending"
  /\ result = None
  /\ run = 1
  /\ first = None
  /\ op = "none"
  /\ input = None
  /\ output = None

\* terminology.ts 492-494
ReturnEmptyList ==
  /\ pc = "start"
  /\ Len(files) = 0
  /\ pc' = "done"
  /\ outcome' = "Empty"
  /\ UNCHANGED << files, h, studyMetadata, i, images, reports, keyObjectSelections,
                  presentationStates, seriesMap, progress, console, classified, result >>
  /\ UNCHANGED << reloadVars, decoderVars, appVars >>

\* terminology.ts 497
Start ==
  /\ pc = "start"
  /\ Len(files) # 0
  /\ progress' = Append(progress,
       [ phase |-> "parsing", current |-> 0, total |-> Len(files),
         currentFile |-> None, message |-> Some("Reading study information...") ])
  /\ pc' = "header"
  /\ UNCHANGED << files, h, studyMetadata, i, images, reports, keyObjectSelections,
                  presentationStates, seriesMap, console, classified, outcome, result >>
  /\ UNCHANGED << reloadVars, decoderVars, appVars >>

\* the header loop run over the whole list
HeaderCandidatesUnsliced(fs) == fs

\* terminology.ts 500: filePaths.slice(0, 10)
HeaderCandidates(fs) ==
  SubSeq(fs, 1, IF Len(fs) < HeaderScanLimit THEN Len(fs) ELSE HeaderScanLimit)

\* terminology.ts 500-503: one turn of the header loop
ScanHeader ==
  /\ pc = "header"
  /\ h < Len(HeaderCandidates(files))
  /\ LET meta == parseStudyMetadata(HeaderCandidates(files)[h + 1]) IN
       /\ studyMetadata' = meta
       /\ pc' = IF meta # None THEN "ingest" ELSE "header"
  /\ h' = h + 1
  /\ UNCHANGED << files, i, images, reports, keyObjectSelections, presentationStates,
                  seriesMap, progress, console, classified, outcome, result >>
  /\ UNCHANGED << reloadVars, decoderVars, appVars >>

\* terminology.ts 505-507
HeaderMissing ==
  /\ pc = "header"
  /\ h = Len(HeaderCandidates(files))
  /\ studyMetadata = None
  /\ pc' = "done"
  /\ outcome' = "Empty"
  /\ UNCHANGED << files, h, studyMetadata, i, images, reports, keyObjectSelections,
                  presentationStates, seriesMap, progress, console, classified, result >>
  /\ UNCHANGED << reloadVars, decoderVars, appVars >>

\* current: i in place of current: i + 1
EmitProgressZeroBased(events, index, total) ==
  Append(events,
    [ phase |-> "parsing", current |-> index - 1, total |-> total,
      currentFile |-> Some(index), message |-> None ])

\* terminology.ts 519-524
EmitProgress(events, index, total) ==
  Append(events,
    [ phase |-> "parsing", current |-> index, total |-> total,
      currentFile |-> Some(index), message |-> None ])

\* terminology.ts 535-544
MaterializeSeries(m, image, f) ==
  IF MapHas(m, image.seriesInstanceUID) THEN m
  ELSE LET seriesMeta == parseSeriesMetadata(f) IN
       IF seriesMeta = None THEN m
       ELSE MapSet(m, image.seriesInstanceUID,
                   [ seriesInstanceUID |-> seriesMeta[1].seriesInstanceUID,
                     studyInstanceUID  |-> seriesMeta[1].studyInstanceUID,
                     seriesNumber      |-> seriesMeta[1].seriesNumber,
                     seriesDescription |-> seriesMeta[1].seriesDescription,
                     bodyPart          |-> seriesMeta[1].bodyPart,
                     modality          |-> seriesMeta[1].modality,
                     images            |-> <<>> ])

\* what parseDicomFile did with a file, for the record kept in classified
KindOf(f) ==
  IF ReadFile(f).threw \/ ReadFile(f).byteLength > maxFileSize \/ ~f.parses
  THEN "NotDecoded" ELSE Classify(f)

\* terminology.ts 516-557: one turn of the ingestion loop
IngestFile ==
  /\ pc = "ingest"
  /\ i < Len(files)
  /\ LET filePath == i + 1
         f        == files[filePath]
         parsed   == parseDicomFile(f, filePath)
     IN
       /\ progress' = EmitProgress(progress, filePath, Len(files))
       /\ classified' = Append(classified,
            [path |-> filePath, kind |-> KindOf(f), type |-> parsed.type])
       /\ console' = IF parsed.warn = None THEN console
                     ELSE Append(console, [warn |-> parsed.warn[1], path |-> filePath])
       /\ IF parsed.type = "throw"
          THEN /\ pc' = "done"
               /\ outcome' = "Threw"
               /\ UNCHANGED << i, accumulators >>
          ELSE /\ pc' = "ingest"
               /\ outcome' = outcome
               /\ i' = i + 1
               /\ images' = IF parsed.type = "image"
                            THEN Append(images, parsed.data) ELSE images
               /\ seriesMap' = IF parsed.type = "image"
                               THEN MaterializeSeries(seriesMap, parsed.data, f)
                               ELSE seriesMap
               /\ reports' = IF parsed.type = "report"
                             THEN Append(reports, parsed.data) ELSE reports
               /\ keyObjectSelections' =
                    IF parsed.type = "keyObject"
                    THEN Append(keyObjectSelections, parsed.data)
                    ELSE keyObjectSelections
               /\ presentationStates' =
                    IF parsed.type = "presentationState"
                    THEN Append(presentationStates, parsed.data)
                    ELSE presentationStates
  /\ UNCHANGED << files, h, studyMetadata, result >>
  /\ UNCHANGED << reloadVars, decoderVars, appVars >>

\* every image pushed to every series
OrganizeImagesUnmatched(m, imgs) ==
  [ e \in 1..Len(m) |-> [ m[e] EXCEPT !.series.images = imgs ] ]

\* terminology.ts 559-565: each image is pushed to the series of its identifier
OrganizeImages(m, imgs) ==
  [ e \in 1..Len(m) |->
      [ m[e] EXCEPT !.series.images =
          SelectSeq(imgs, LAMBDA img : img.seriesInstanceUID = m[e].key) ] ]

\* the images left in the order of the file list
SortImagesOmitted(m) == m

\* terminology.ts 567-570
SortImages(m) ==
  [ e \in 1..Len(m) |->
      [ m[e] EXCEPT !.series.images = SortByField(m[e].series.images, "instanceNumber") ] ]

\* terminology.ts 572-575
SortSeries(m) == SortByField([e \in 1..Len(m) |-> m[e].series], "seriesNumber")

\* the zero-series test left out
NoSeriesUntested(sortedSeries) == FALSE

\* terminology.ts 577-579
NoSeries(sortedSeries) == Len(sortedSeries) = 0

\* terminology.ts 559-598: the synchronous end of loadDicomFromFolder
\* a Study whose key object selections keep only the references to its images
StudyGraphResolved(meta, sortedSeries, rs, kos, prs) ==
  LET Loaded(uid) ==
        \E a \in 1..Len(sortedSeries) : \E b \in 1..Len(sortedSeries[a].images) :
          sortedSeries[a].images[b].sopInstanceUID = uid
  IN [ studyInstanceUID    |-> meta.studyInstanceUID,
       patientName         |-> meta.patientName,
       patientId           |-> meta.patientId,
       modality            |-> meta.modality,
       series              |-> sortedSeries,
       reports             |-> rs,
       keyObjectSelections |->
         [ a \in 1..Len(kos) |->
             [ kos[a] EXCEPT !.keyImages = SelectSeq(kos[a].keyImages, Loaded) ] ],
       presentationStates  |-> prs ]

\* terminology.ts 592-598: the Study returned
StudyGraph(meta, sortedSeries, rs, kos, prs) ==
  [ studyInstanceUID    |-> meta.studyInstanceUID,
    patientName         |-> meta.patientName,
    patientId           |-> meta.patientId,
    modality            |-> meta.modality,
    series              |-> sortedSeries,
    reports             |-> rs,
    keyObjectSelections |-> kos,
    presentationStates  |-> prs ]

Assemble ==
  /\ pc = "ingest"
  /\ i = Len(files)
  /\ LET organized    == SortImages(OrganizeImages(seriesMap, images))
         sortedSeries == SortSeries(organized)
     IN
       /\ seriesMap' = organized
       /\ IF NoSeries(sortedSeries)
          THEN /\ outcome' = "Empty"
               /\ result' = None
          ELSE /\ outcome' = "Study"
               /\ result' = Some(StudyGraph(studyMetadata[1], sortedSeries, reports,
                                            keyObjectSelections, presentationStates))
  /\ pc' = "done"
  /\ UNCHANGED << files, h, studyMetadata, i, images, reports, keyObjectSelections,
                  presentationStates, progress, console, classified >>
  /\ UNCHANGED << reloadVars, decoderVars, appVars >>

Next ==
  \/ ReturnEmptyList
  \/ Start
  \/ ScanHeader
  \/ HeaderMissing
  \/ IngestFile
  \/ Assemble

Spec == Init /\ [][Next]_vars

(***************************************************************************)
(* loadDicomFromFolder called a second time with the file list of the      *)
(* first call, the files unchanged.  Every variable of the function is a   *)
(* local of the call (terminology.ts 499, 511-515) and the module keeps no *)
(* state between calls, so the second call begins as the first did.        *)
(***************************************************************************)
\* a call that begins with the images and series of the call before
EntryKeepingImages ==
  /\ pc' = "start"
  /\ h' = 0
  /\ studyMetadata' = None
  /\ i' = 0
  /\ reports' = <<>>
  /\ keyObjectSelections' = <<>>
  /\ presentationStates' = <<>>
  /\ progress' = <<>>
  /\ console' = <<>>
  /\ classified' = <<>>
  /\ outcome' = "pending"
  /\ result' = None
  /\ UNCHANGED << images, seriesMap >>

\* terminology.ts 488-515: the state in which a call begins
Entry ==
  /\ pc' = "start"
  /\ h' = 0
  /\ studyMetadata' = None
  /\ i' = 0
  /\ images' = <<>>
  /\ reports' = <<>>
  /\ keyObjectSelections' = <<>>
  /\ presentationStates' = <<>>
  /\ seriesMap' = <<>>
  /\ progress' = <<>>
  /\ console' = <<>>
  /\ classified' = <<>>
  /\ outcome' = "pending"
  /\ result' = None

ReloadLists == UNION { [1..n -> FilePool] : n \in 0..MaxReload }

InitReload ==
  /\ Init
  /\ files \in ReloadLists

\* the second call, made when the first has returned or thrown
LoadAgain ==
  /\ pc = "done"
  /\ run = 1
  /\ run' = 2
  /\ first' = Some([ outcome |-> outcome, result |-> result ])
  /\ Entry
  /\ UNCHANGED << files, decoderVars, appVars >>

NextReload ==
  \/ ReturnEmptyList
  \/ Start
  \/ ScanHeader
  \/ HeaderMissing
  \/ IngestFile
  \/ Assemble
  \/ LoadAgain

SpecReload == InitReload /\ [][NextReload]_vars

(***************************************************************************)
(* The document decoders run on their own: parseSR (dicom-sr.ts) and       *)
(* parseKO (part_000) applied to a report and to a key object document     *)
(* whose Content Sequence is any tree of at most MaxNodes content items.   *)
(* The loader is not running.                                              *)
(***************************************************************************)
LoaderIdle ==
  /\ files = <<>>
  /\ pc = "idle"
  /\ h = 0
  /\ studyMetadata = None
  /\ i = 0
  /\ images = <<>>
  /\ reports = <<>>
  /\ keyObjectSelections = <<>>
  /\ presentationStates = <<>>
  /\ seriesMap = <<>>
  /\ progress = <<>>
  /\ console = <<>>
  /\ classified = <<>>
  /\ outcome = "pending"
  /\ result = None
  /\ run = 1
  /\ first = None

\* items that may carry nested items
ParentItems == { NoValueTypeItem, ContainerItem, DateItem }

\* items without nested items: any of the above, the other kinds of item, a
\* sequence item without a dataset, and a container whose Content Sequence
\* has no item
LeafItems ==
  ParentItems \cup
  { TextItem, NumItem, ImageItem("1.1"), KeyImageItem("9.9"), ImageNoRefItem,
    NamedDateItem, NoDataSetItem, WithItems(ContainerItem, <<>>) }

RECURSIVE ItemLists(_)
RECURSIVE ItemTrees(_)
\* the lists of items that hold n items over all depths
ItemLists(n) ==
  IF n = 0 THEN { <<>> }
  ELSE UNION { { <<t>> \o rest : t \in ItemTrees(k), rest \in ItemLists(n - k) } :
               k \in 1..n }

\* the items that hold n items, themselves included
ItemTrees(n) ==
  IF n = 1 THEN LeafItems
  ELSE { WithItems(item, items) : item \in ParentItems, items \in ItemLists(n - 1) }

\* a dataset without a Content Sequence, or with one of at most max items
ContentSequences(max) ==
  { None } \cup { Some(items) : items \in UNION { ItemLists(n) : n \in 0..max } }

InitContent ==
  /\ LoaderIdle
  /\ AppIdle
  /\ op = "none"
  /\ input \in ContentSequences(MaxNodes)
  /\ output = None

\* the structured report with the Content Sequence chosen
ReportWith(cs) == [ReportFile EXCEPT !.contentSequence = cs]

\* the key object document with the Content Sequence chosen
KeyObjectWith(cs) == [KeyObjectFile EXCEPT !.contentSequence = cs]

DecodeReport ==
  /\ op = "none"
  /\ op' = "parseSR"
  /\ output' = parseSR(ReportWith(input))
  /\ UNCHANGED << input, loadVars, appVars >>

DecodeKeyObject ==
  /\ op = "none"
  /\ op' = "parseKO"
  /\ output' = parseKO(KeyObjectWith(input))
  /\ UNCHANGED << input, loadVars, appVars >>

NextContent ==
  \/ DecodeReport
  \/ DecodeKeyObject

SpecContent == InitContent /\ [][NextContent]_vars

(***************************************************************************)
(* The overlay decoders run on their own: unpackOverlayBits on a packed    *)
(* buffer of at most MaxPacked bytes and a pixel count of at most          *)
(* MaxPixels, and parseOverlays on a dataset whose first, second and last  *)
(* overlay group slots hold any of the planes above.                       *)
(***************************************************************************)
Bytes == { 0, 1, 11, 128, 170, 255 }

PackedBuffers == UNION { [1..n -> Bytes] : n \in 0..MaxPacked }

PlanePool ==
  { AbsentPlane, ExamplePlane, ZeroRowsPlane, NoColumnsPlane, ZeroColumnsPlane,
    NoDataPlane, RegionPlane, BadOriginPlane }

OverlayDatasets ==
  { [ overlayPlanes |-> [NoOverlayPlanes EXCEPT ![1] = a, ![2] = b, ![16] = c] ] :
      a \in PlanePool, b \in PlanePool, c \in PlanePool }

InitOverlay ==
  /\ LoaderIdle
  /\ AppIdle
  /\ op = "none"
  /\ input = None
  /\ output = None

UnpackOverlayBits ==
  /\ op = "none"
  /\ \E packed \in PackedBuffers, numPixels \in 0..MaxPixels :
       /\ input' = [ packed |-> packed, numPixels |-> numPixels ]
       /\ output' = unpackOverlayBits(packed, numPixels)
  /\ op' = "unpackOverlayBits"
  /\ UNCHANGED << loadVars, appVars >>

ParseOverlays ==
  /\ op = "none"
  /\ \E ds \in OverlayDatasets :
       /\ input' = ds
       /\ output' = parseOverlays(ds)
  /\ op' = "parseOverlays"
  /\ UNCHANGED << loadVars, appVars >>

NextOverlay ==
  \/ UnpackOverlayBits
  \/ ParseOverlays

SpecOverlay == InitOverlay /\ [][NextOverlay]_vars

(***************************************************************************)
(* The graphic decoders of dicom-pr run on their own: parseGraphicObject   *)
(* on a graphic object with any type, declared point count and Graphic     *)
(* Data element of at most MaxFloats floats, followed in the file by the   *)
(* bytes of zero, one or two more floats; parseTextObject on a text object *)
(* with any text and positions; and parseDicomFile on a presentation state *)
(* that holds such a graphic object.                                       *)
(***************************************************************************)
GraphicTypes == { None, Some(""), Some("POINT"), Some("INTERPOLATED"), Some("SQUARE") }

PointCounts == { None } \cup { Some(n) : n \in 0..MaxPoints }

GraphicElements ==
  { None } \cup
  { Some(GraphicElement(floats, following)) :
      floats \in UNION { [1..n -> {10, 20}] : n \in 0..MaxFloats },
      following \in { <<>>, <<77>>, <<77, 78>> } }

GraphicObjects ==
  { GraphicObject(type, numPoints, element) :
      type \in GraphicTypes, numPoints \in PointCounts, element \in GraphicElements }

Positions ==
  { None, Some(<< Some(5), Some(6) >>), Some(<< Some(1), Some(2), Some(3) >>),
    Some(<< Some(3), None >>), Some(<< Some(4) >>) }

TextObjects ==
  { TextObject(text, anchor, corner) :
      text \in { None, Some(""), Some("lesion") }, anchor \in Positions,
      corner \in Positions }

\* the presentation state whose annotation holds the graphic object before
\* the line and the label
PresentationWith(objectDS) ==
  [PresentationFile EXCEPT !.graphicAnnotations =
     Some(<< AnnotationItem(Some(<< objectDS, LineObject >>), Some(<< LabelObject >>)) >>)]

InitGraphic ==
  /\ LoaderIdle
  /\ AppIdle
  /\ op = "none"
  /\ input = None
  /\ output = None

ParseGraphicObject ==
  /\ op = "none"
  /\ \E objectDS \in GraphicObjects :
       /\ input' = objectDS
       /\ output' = parseGraphicObject(objectDS)
  /\ op' = "parseGraphicObject"
  /\ UNCHANGED << loadVars, appVars >>

ParseTextObject ==
  /\ op = "none"
  /\ \E textDS \in TextObjects :
       /\ input' = textDS
       /\ output' = parseTextObject(textDS)
  /\ op' = "parseTextObject"
  /\ UNCHANGED << loadVars, appVars >>

ParsePresentation ==
  /\ op = "none"
  /\ \E objectDS \in GraphicObjects :
       /\ input' = objectDS
       /\ output' = parseDicomFile(PresentationWith(objectDS), 1)
  /\ op' = "parseDicomFile"
  /\ UNCHANGED << loadVars, appVars >>

NextGraphic ==
  \/ ParseGraphicObject
  \/ ParseTextObject
  \/ ParsePresentation

SpecGraphic == InitGraphic /\ [][NextGraphic]_vars

(***************************************************************************)
(* Properties.  The predicates below describe a file by its tags alone.    *)
(***************************************************************************)
\* the file can be read, is within the size limit, decodes, and names a study
YieldsStudyId(f) ==
  f.readable /\ f.size <= maxFileSize /\ f.parses /\ ~Falsy(f.studyInstanceUID)

InNoClassSet(f) ==
  \/ Falsy(f.sopClassUID)
  \/ f.sopClassUID[1] \notin (SR_SOP_CLASSES \cup {KO_SOP_CLASS} \cup PR_SOP_CLASSES)

\* read or decode error, size limit exceeded, unclassifiable, or an
\* identifier missing that the decoder of the file's kind requires
FileFails(f) ==
  \/ ~f.readable
  \/ ~f.parses
  \/ f.size > maxFileSize
  \/ InNoClassSet(f) /\ ~f.pixelData
  \/ Falsy(f.sopInstanceUID)
  \/ /\ Falsy(f.seriesInstanceUID)
     /\ InNoClassSet(f) \/ f.sopClassUID[1] \in SR_SOP_CLASSES

\* the lowest index among the first ten files that yields a study identifier, or 0
FirstHeaderIndex ==
  LET last == IF Len(files) < 10 THEN Len(files) ELSE 10
      hits == {k \in 1..last : YieldsStudyId(files[k])}
  IN IF hits = {} THEN 0 ELSE CHOOSE k \in hits : \A m \in hits : k <= m

NonDecreasing(s, fld) ==
  \A a, b \in 1..Len(s) : a < b => s[a][fld] <= s[b][fld]

(* C1: in every returned Study the series are non-decreasing in seriesNumber
   and the images of every series are non-decreasing in instanceNumber,
   whatever the order of the files. *)
C1_Ordered ==
  outcome = "Study" =>
    /\ NonDecreasing(result[1].series, "seriesNumber")
    /\ \A e \in 1..Len(result[1].series) :
         NonDecreasing(result[1].series[e].images, "instanceNumber")

\* a Study of two series materialized in descending series number, with two
\* images of one series met in descending instance number
C1_Witness ==
  /\ outcome = "Study"
  /\ Len(result[1].series) >= 2
  /\ result[1].series[1].seriesNumber < result[1].series[2].seriesNumber
  /\ seriesMap[1].key = result[1].series[2].seriesInstanceUID
  /\ \E e \in 1..Len(result[1].series) :
       \E a, b \in 1..Len(result[1].series[e].images) :
         /\ a < b
         /\ result[1].series[e].images[a].instanceNumber
              < result[1].series[e].images[b].instanceNumber
         /\ result[1].series[e].images[a].filePath
              > result[1].series[e].images[b].filePath

(* C2: a file that fails contributes nothing and never makes the load throw or
   stop: the turn of the ingestion loop that takes it leaves every accumulator
   as it was and moves on to the next file, and a load that found its header
   ends only after every file was taken. *)
C2_FailureIsolated ==
  [][ /\ (pc = "ingest" /\ i < Len(files) /\ FileFails(files[i + 1])) =>
           /\ i' = i + 1
           /\ pc' = "ingest"
           /\ UNCHANGED accumulators
      /\ outcome' # "Threw"
      /\ (pc' = "done" /\ studyMetadata' # None) => Len(classified') = Len(files)
    ]_vars

\* a Study holding an image of a file that follows a failed file and an image
\* of a file that precedes it
C2_Witness ==
  /\ outcome = "Study"
  /\ \E k \in 1..Len(files) :
       /\ FileFails(files[k])
       /\ \E a, b \in 1..Len(images) : images[a].filePath < k /\ k < images[b].filePath

(* C3: the load ends without throwing; it returns null exactly when the list
   is empty, no examined file yields a study identifier, or ingestion ends
   with zero series, and otherwise a Study with at least one series. *)
C3_EmptyOrStudy ==
  pc = "done" =>
    /\ outcome \in {"Empty", "Study"}
    /\ outcome = "Empty" <=>
         \/ Len(files) = 0
         \/ FirstHeaderIndex = 0
         \/ Len(seriesMap) = 0
    /\ outcome = "Empty" => result = None
    /\ outcome = "Study" => result # None /\ Len(result[1].series) >= 1

\* a load that found a header and decoded an image, and ends Empty for lack of a series
C3_Witness ==
  /\ pc = "done"
  /\ outcome = "Empty"
  /\ studyMetadata # None
  /\ Len(images) > 0
  /\ Len(seriesMap) = 0

(* C4: the study-level fields are those of the lowest-index file among the
   first ten that yields a study identifier, in every state from the moment
   they are set and in the result; when none of the first ten yields one the
   outcome is Empty, no file is classified and no per-file progress event is
   emitted. *)
C4_FirstHeaderWins ==
  /\ studyMetadata # None =>
       /\ FirstHeaderIndex # 0
       /\ h = FirstHeaderIndex
       /\ studyMetadata = parseStudyMetadata(files[FirstHeaderIndex])
  /\ outcome = "Study" =>
       /\ result[1].studyInstanceUID = studyMetadata[1].studyInstanceUID
       /\ result[1].patientName = studyMetadata[1].patientName
       /\ result[1].patientId = studyMetadata[1].patientId
       /\ result[1].modality = studyMetadata[1].modality
  /\ FirstHeaderIndex = 0 =>
       /\ pc # "ingest"
       /\ classified = <<>>
       /\ \A e \in 1..Len(progress) : progress[e].current = 0
       /\ pc = "done" => outcome = "Empty"

\* an Empty outcome for a list whose eleventh file yields a study identifier
C4_Witness ==
  /\ pc = "done"
  /\ outcome = "Empty"
  /\ Len(files) > 10
  /\ FirstHeaderIndex = 0
  /\ YieldsStudyId(files[11])

(* C5: once a header is found, the files are classified once each in index
   order, with one progress event per file, current = index + 1 (the path
   here) and total = n; the current values are strictly increasing, and the
   load ends only after all n files. *)
C5_ProgressPerFile ==
  studyMetadata # None =>
    /\ Len(progress) = i + 1
    /\ Len(classified) = i
    /\ \A k \in 1..i :
         /\ progress[k + 1].current = k
         /\ progress[k + 1].total = Len(files)
         /\ progress[k + 1].currentFile = Some(k)
         /\ classified[k].path = k
    /\ \A a, b \in 1..Len(progress) : a < b => progress[a].current < progress[b].current
    /\ pc = "done" => i = Len(files)

\* a finished load of three or more files, one of which did not decode
C5_Witness ==
  /\ pc = "done"
  /\ outcome = "Study"
  /\ Len(files) >= 3
  /\ Len(progress) = Len(files) + 1
  /\ \E k \in 1..Len(classified) : classified[k].kind = "NotDecoded"

\* the file can be read, is within the size limit and decodes
Decodes(f) == f.readable /\ f.size <= maxFileSize /\ f.parses

\* what the caller of the load is handed about file k beyond its progress
\* event: an exception, or a progress event for k that carries a message
ReportedToCaller(k) ==
  \/ outcome = "Threw"
  \/ \E e \in 1..Len(progress) :
       progress[e].currentFile = Some(k) /\ progress[e].message # None

Contributions ==
  Len(images) + Len(reports) + Len(keyObjectSelections) + Len(presentationStates)

(* C6 as stated: a file over the size limit contributes nothing, the
   condition is reported to the caller of the load, and ingestion goes on. *)
C6_OversizeReported ==
  \A k \in 1..i :
    files[k].size > maxFileSize =>
      /\ \A a \in 1..Len(images) : images[a].filePath # k
      /\ ReportedToCaller(k)

(* C6 as amended: a file over the size limit is rejected by the read-file
   handler and contributes nothing (not the study header, no image, and no
   more results than there are files within the limit); the condition is
   written to the console only and is not reported to the caller of the
   load, and ingestion goes on to the last file. *)
C6_OversizeSkipped ==
  /\ \A k \in 1..Len(files) :
       files[k].size > maxFileSize =>
         /\ ReadFile(files[k]).threw
         /\ studyMetadata # None => h # k
         /\ k <= i =>
              /\ classified[k].type = "null"
              /\ \A a \in 1..Len(images) : images[a].filePath # k
              /\ \E w \in 1..Len(console) : console[w].path = k
              /\ ~ReportedToCaller(k)
  /\ Contributions <= Cardinality({k \in 1..i : files[k].size <= maxFileSize})
  /\ (pc = "done" /\ studyMetadata # None) => i = Len(files)

\* a Study holding an image of a file that follows a file over the size limit
C6_Witness ==
  /\ outcome = "Study"
  /\ \E k \in 1..Len(files) :
       /\ files[k].size > maxFileSize
       /\ \E a \in 1..Len(images) : images[a].filePath > k

(* C7: every decoded dataset gets exactly one kind: the non-image kind whose
   SOP class set holds its class UID (the three sets are pairwise disjoint,
   and pixel data does not matter), otherwise Image if and only if it has
   pixel data, otherwise Unknown, which yields no result and no error; the
   decoder run is the one of that kind. *)
C7_Classification ==
  /\ SR_SOP_CLASSES \cap PR_SOP_CLASSES = {}
  /\ KO_SOP_CLASS \notin SR_SOP_CLASSES \cup PR_SOP_CLASSES
  /\ outcome # "Threw"
  /\ \A e \in 1..Len(classified) :
       LET f    == files[classified[e].path]
           kind == classified[e].kind
           type == classified[e].type
       IN Decodes(f) =>
            /\ kind \in { "StructuredReport", "KeyObjectSelection",
                          "PresentationState", "Image", "Unknown" }
            /\ ~InNoClassSet(f) =>
                 /\ f.sopClassUID[1] \in SR_SOP_CLASSES => kind = "StructuredReport"
                 /\ f.sopClassUID[1] = KO_SOP_CLASS => kind = "KeyObjectSelection"
                 /\ f.sopClassUID[1] \in PR_SOP_CLASSES => kind = "PresentationState"
            /\ InNoClassSet(f) => kind = (IF f.pixelData THEN "Image" ELSE "Unknown")
            /\ kind = "StructuredReport" => type \in {"report", "null"}
            /\ kind = "KeyObjectSelection" => type \in {"keyObject", "null"}
            /\ kind = "PresentationState" => type \in {"presentationState", "null"}
            /\ kind = "Image" => type \in {"image", "null"}
            /\ kind = "Unknown" => type = "null"

\* a report with pixel data decoded as a report, and a dataset of no class
\* set without pixel data dropped, in one load
C7_Witness ==
  /\ \E e \in 1..Len(classified) :
       /\ files[classified[e].path].pixelData
       /\ classified[e].kind = "StructuredReport"
       /\ classified[e].type = "report"
  /\ \E e \in 1..Len(classified) :
       /\ Decodes(files[classified[e].path])
       /\ classified[e].kind = "Unknown"

(* C8: in every returned Study the series identifiers are pairwise distinct,
   every series holds at least one image, and every image of a series
   carries the series' seriesInstanceUID. *)
C8_SeriesIntegrity ==
  outcome = "Study" =>
    LET s == result[1].series IN
      /\ \A a, b \in 1..Len(s) : a # b => s[a].seriesInstanceUID # s[b].seriesInstanceUID
      /\ \A e \in 1..Len(s) :
           /\ Len(s[e].images) >= 1
           /\ \A a \in 1..Len(s[e].images) :
                s[e].images[a].seriesInstanceUID = s[e].seriesInstanceUID

\* a Study of two series, one of them with two images
C8_Witness ==
  /\ outcome = "Study"
  /\ Len(result[1].series) = 2
  /\ \E e \in 1..2 : Len(result[1].series[e].images) >= 2

\* the images of a Study, series after series
RECURSIVE ImagesOf(_)
ImagesOf(s) ==
  IF Len(s) = 0 THEN <<>> ELSE s[1].images \o ImagesOf(SubSeq(s, 2, Len(s)))

(* C9: no two images of a returned Study share a sopInstanceUID. *)
C9_UniqueSop ==
  outcome = "Study" =>
    LET all == ImagesOf(result[1].series) IN
      \A a, b \in 1..Len(all) : a # b => all[a].sopInstanceUID # all[b].sopInstanceUID

\* the path of the first image of series uid decoded so far
FirstImagePath(uid) ==
  LET paths == {images[a].filePath : a \in {b \in 1..Len(images) :
                                              images[b].seriesInstanceUID = uid}}
  IN CHOOSE k \in paths : \A m \in paths : k <= m

(* C10: every series is materialized by the turn that takes its first image,
   with the series number, description, body part and modality of that
   image's file, and every decoded image is in its series in the Study. *)
C10_SeriesFromFirstImage ==
  /\ \A a \in 1..Len(images) :
       LET uid == images[a].seriesInstanceUID
           f   == files[FirstImagePath(uid)]
       IN \E e \in 1..Len(seriesMap) :
            /\ seriesMap[e].key = uid
            /\ seriesMap[e].series.seriesNumber = OrElse(f.seriesNumber, 0)
            /\ seriesMap[e].series.seriesDescription = OrElse(f.seriesDescription, "")
            /\ seriesMap[e].series.bodyPart = f.bodyPart
            /\ seriesMap[e].series.modality = OrElse(f.modality, "")
  /\ pc = "done" =>
       \A a \in 1..Len(images) :
         /\ outcome = "Study"
         /\ \E e \in 1..Len(result[1].series) :
              /\ result[1].series[e].seriesInstanceUID = images[a].seriesInstanceUID
              /\ \E b \in 1..Len(result[1].series[e].images) :
                   result[1].series[e].images[b] = images[a]

RECURSIVE AllReferences(_)
\* the image references of the IMAGE items of a list, at every depth, each
\* item before the items nested in it
AllReferences(items) ==
  IF items = <<>> THEN <<>>
  ELSE LET item == Head(items) IN
         (IF item.dataSet
          THEN ImageReference(item) \o AllReferences(ItemsOf(item))
          ELSE <<>>)
         \o AllReferences(Tail(items))

(* C11: parseKO collects the referenced SOP instance of every IMAGE item of
   the content tree, at every nesting depth, in encounter order and with
   duplicates kept (a document with no reference at all is discarded). *)
C11_EveryDepth ==
  op = "parseKO" =>
    LET expected == AllReferences(ItemsOf(KeyObjectWith(input))) IN
      IF expected = <<>>
      THEN output.type = "null"
      ELSE output.type = "keyObject" /\ output.data.keyImages = expected

\* file k is a decoded key object or presentation state document, with a SOP
\* instance identifier, whose references resolve to nothing
ResolvesNothing(k) ==
  LET f == files[k] IN
    /\ Decodes(f)
    /\ ~Falsy(f.sopInstanceUID)
    /\ \/ Classify(f) = "KeyObjectSelection" /\ AllReferences(ItemsOf(f)) = <<>>
       \/ Classify(f) = "PresentationState" /\ parseReferencedImagesPR(f) = <<>>

(* C12: every key object selection of a Study has at least one key image and
   every presentation state at least one referenced image; a key object or
   presentation state file that resolves no reference is discarded and
   contributes nothing. *)
C12_NonEmptyReferences ==
  /\ \A a \in 1..Len(keyObjectSelections) : Len(keyObjectSelections[a].keyImages) >= 1
  /\ \A a \in 1..Len(presentationStates) :
       Len(presentationStates[a].referencedImageUIDs) >= 1
  /\ outcome = "Study" =>
       /\ \A a \in 1..Len(result[1].keyObjectSelections) :
            Len(result[1].keyObjectSelections[a].keyImages) >= 1
       /\ \A a \in 1..Len(result[1].presentationStates) :
            Len(result[1].presentationStates[a].referencedImageUIDs) >= 1
  /\ \A k \in 1..i : ResolvesNothing(k) => classified[k].type = "null"
  /\ Len(keyObjectSelections) + Len(presentationStates)
       <= Cardinality({ k \in 1..i :
                         /\ Classify(files[k]) \in {"KeyObjectSelection", "PresentationState"}
                         /\ ~ResolvesNothing(k) })

\* a Study returned for a list that holds a key object document and a
\* presentation state that resolve no reference
C12_Witness ==
  /\ outcome = "Study"
  /\ \E k \in 1..Len(files) : files[k] = KeyObjectEmpty
  /\ \E k \in 1..Len(files) : files[k] = PresentationEmpty
  /\ result[1].keyObjectSelections = <<>>
  /\ result[1].presentationStates = <<>>

\* the key object selections that files 1..n give, in file order: one for
\* each decoded key object document with a SOP instance identifier and a
\* reference, holding the references as the document lists them
SelectionsOf(n) ==
  LET Selection(k) ==
        IF /\ Decodes(files[k])
           /\ Classify(files[k]) = "KeyObjectSelection"
           /\ ~Falsy(files[k].sopInstanceUID)
           /\ parseReferencedImages(files[k]) # <<>>
        THEN << [ sopInstanceUID |-> files[k].sopInstanceUID[1],
                  keyImages      |-> parseReferencedImages(files[k]) ] >>
        ELSE <<>>
  IN Flatten([k \in 1..n |-> Selection(k)])

\* uid is the SOP instance of an image of the Study returned
LoadedImage(uid) ==
  \E a \in 1..Len(ImagesOf(result[1].series)) :
    ImagesOf(result[1].series)[a].sopInstanceUID = uid

(* C13: a key object selection is in the Study with the references its
   document lists, whether or not an image with that SOP instance was
   loaded: no reference is removed, rewritten or checked against the images,
   and the load does not fail. *)
C13_DanglingKept ==
  /\ outcome # "Threw"
  /\ keyObjectSelections = SelectionsOf(i)
  /\ outcome = "Study" => result[1].keyObjectSelections = SelectionsOf(Len(files))

\* a Study whose key object selection references one image of the Study and
\* one SOP instance that no image of the Study has
C13_Witness ==
  /\ outcome = "Study"
  /\ \E a \in 1..Len(result[1].keyObjectSelections) :
       LET keyImages == result[1].keyObjectSelections[a].keyImages IN
         /\ \E b \in 1..Len(keyImages) : LoadedImage(keyImages[b])
         /\ \E b \in 1..Len(keyImages) : ~LoadedImage(keyImages[b])

RECURSIVE NoEmptyChildren(_)
\* no finding of the list, at any depth, has an empty list of children
NoEmptyChildren(findings) ==
  \A k \in 1..Len(findings) :
    \/ findings[k].children = None
    \/ /\ Len(findings[k].children[1]) >= 1
       /\ NoEmptyChildren(findings[k].children[1])

\* the item decodes to a finding: it has a dataset and a value type
Decodable(item) == item.dataSet /\ ~Falsy(item.valueType)

\* the item decodes and has nested items, none of which decodes
OnlyLostItems(item) ==
  /\ Decodable(item)
  /\ Len(ItemsOf(item)) >= 1
  /\ \A k \in 1..Len(ItemsOf(item)) : ~Decodable(ItemsOf(item)[k])

(* C14: in a decoded report no finding at any depth has an empty list of
   children: the field is absent or holds at least one finding; an item
   whose nested items all fail to decode has no children field. *)
C14_NoEmptyChildren ==
  op = "parseSR" =>
    /\ output.type = "report"
    /\ NoEmptyChildren(output.data.findings)
    /\ (Len(ItemsOf(ReportWith(input))) = 1 /\ OnlyLostItems(ItemsOf(ReportWith(input))[1])) =>
         /\ Len(output.data.findings) = 1
         /\ output.data.findings[1].children = None

\* a report of one container whose two nested items both fail to decode
C14_Witness ==
  /\ op = "parseSR"
  /\ Len(ItemsOf(ReportWith(input))) = 1
  /\ OnlyLostItems(ItemsOf(ReportWith(input))[1])
  /\ ItemsOf(ReportWith(input))[1].valueType = Some("CONTAINER")
  /\ Len(ItemsOf(ItemsOf(ReportWith(input))[1])) = 2
  /\ output.data.findings[1].children = None

\* the byte whose bits, low bit first, are the pixels offset + 1 .. offset + n
ByteOf(bits, offset, n) ==
  LET Weigh[k \in 0..n] == IF k = 0 THEN 0 ELSE Weigh[k - 1] + bits[offset + k] * 2 ^ (k - 1)
  IN Weigh[n]

(* C15: unpackOverlayBits(packed, N) returns N bytes, each 0 or 1; byte i is
   bit i mod 8 of packed[floor(i / 8)] when that byte is in the buffer and 0
   otherwise, for any buffer length and any N; packed = [0b00001011] and
   N = 8 give [1,1,0,1,0,0,0,0]. *)
C15_UnpackedBits ==
  op = "unpackOverlayBits" =>
    LET packed == input.packed
        N      == input.numPixels
    IN /\ Len(output) = N
       /\ \A p \in 1..N :
            /\ output[p] \in {0, 1}
            /\ (p - 1) \div 8 >= Len(packed) => output[p] = 0
       /\ \A b \in 1..Len(packed) :
            LET n == IF 8 * b <= N THEN 8 ELSE IF 8 * (b - 1) >= N THEN 0 ELSE N - 8 * (b - 1)
            IN ByteOf(output, 8 * (b - 1), n) = packed[b] % (2 ^ n)
       /\ (packed = <<11>> /\ N = 8) => output = <<1, 1, 0, 1, 0, 0, 0, 0>>

\* the example buffer unpacked to more pixels than it has bits
C15_Witness ==
  /\ op = "unpackOverlayBits"
  /\ input.packed = <<11>>
  /\ input.numPixels = 10
  /\ output = <<1, 1, 0, 1, 0, 0, 0, 0, 0, 0>>

\* N pixels packed again, bit i mod 8 of byte floor(i / 8): ceil(N / 8) bytes
Repack(bits, N) ==
  [ b \in 1..((N + 7) \div 8) |->
      ByteOf(bits, 8 * (b - 1), IF 8 * b <= N THEN 8 ELSE N - 8 * (b - 1)) ]

(* C16 as stated: for a packed buffer of L bytes and N <= 8L, unpacking N
   bits and packing them again reproduces the original bytes.  Read in the
   way most favourable to the statement: every byte packed again equals the
   byte of the buffer at its place. *)
C16_RoundTrip ==
  (op = "unpackOverlayBits" /\ input.numPixels <= 8 * Len(input.packed)) =>
    LET again == Repack(output, input.numPixels) IN
      /\ Len(again) <= Len(input.packed)
      /\ \A b \in 1..Len(again) : again[b] = input.packed[b]

(* C16 as amended: for a packed buffer of L bytes and N <= 8L, unpacking N
   bits and packing them again gives ceil(N / 8) bytes: the first
   floor(N / 8) bytes of the buffer, followed, when N is not a multiple of
   8, by the low N mod 8 bits of the next byte; the L bytes come back when
   N = 8L. *)
C16_RoundTripPrefix ==
  (op = "unpackOverlayBits" /\ input.numPixels <= 8 * Len(input.packed)) =>
    LET packed == input.packed
        N      == input.numPixels
        again  == Repack(output, N)
    IN /\ Len(again) = (N + 7) \div 8
       /\ \A b \in 1..(N \div 8) : again[b] = packed[b]
       /\ N % 8 # 0 => again[N \div 8 + 1] = packed[N \div 8 + 1] % (2 ^ (N % 8))
       /\ N = 8 * Len(packed) => again = packed

\* two bytes unpacked to 12 pixels: the second byte comes back without its
\* high bits, which are set in the buffer
C16_Witness ==
  /\ op = "unpackOverlayBits"
  /\ input.packed = <<11, 170>>
  /\ input.numPixels = 12
  /\ Repack(output, 12) = <<11, 10>>

(* C17: loading the same file list twice, the files unchanged, gives equal
   results: the same header fields, the same series in the same order with
   the same images in the same order, and the same reports, key object
   selections and presentation states in the same order. *)
C17_SameStudyTwice ==
  (run = 2 /\ pc = "done") =>
    /\ outcome = first[1].outcome
    /\ result = first[1].result

\* a second load returning a Study of a series of two images sorted by
\* instance number against the order of the files
C17_Witness ==
  /\ run = 2
  /\ pc = "done"
  /\ outcome = "Study"
  /\ files = << BaseImage, ImageA1 >>
  /\ Len(result[1].series[1].images) = 2
  /\ result = first[1].result

\* an overlay of the group of slot k was returned
Returned(k) == \E a \in 1..Len(output) : output[a].group = OverlayGroups[k]

\* the overlays returned have even group numbers of the sixteen slots, in
\* strictly ascending order
AscendingGroups ==
  /\ \A a \in 1..Len(output) :
       /\ output[a].group % 2 = 0
       /\ \E k \in 1..16 : output[a].group = OverlayGroups[k]
  /\ \A a, b \in 1..Len(output) : a < b => output[a].group < output[b].group

(* C18 as stated: parseOverlays returns an overlay for a group slot exactly
   when the slot's row count is present and non-zero and its packed data
   element is present; the overlays returned have pairwise distinct even
   group numbers in ascending order. *)
C18_RowsAndData ==
  op = "parseOverlays" =>
    /\ \A k \in 1..16 :
         Returned(k) <=> (~Unset(input.overlayPlanes[k].rows)
                            /\ input.overlayPlanes[k].data # None)
    /\ AscendingGroups

(* C18 as amended: parseOverlays returns an overlay for a group slot exactly
   when the slot's row count and column count are both present and non-zero
   and its packed data element is present; a slot without packed data is
   omitted, and the overlays returned have pairwise distinct even group
   numbers in ascending order. *)
C18_RowsColumnsAndData ==
  op = "parseOverlays" =>
    /\ \A k \in 1..16 :
         Returned(k) <=> (~Unset(input.overlayPlanes[k].rows)
                            /\ ~Unset(input.overlayPlanes[k].columns)
                            /\ input.overlayPlanes[k].data # None)
    /\ AscendingGroups

\* a dataset with rows and data but no column count in group 6000, rows and
\* columns but no data in group 6002 and the example plane in group 601E:
\* only the last is returned
C18_Witness ==
  /\ op = "parseOverlays"
  /\ input.overlayPlanes[1] = NoColumnsPlane
  /\ input.overlayPlanes[2] = NoDataPlane
  /\ input.overlayPlanes[16] = ExamplePlane
  /\ Len(output) = 1
  /\ output[1].group = 24606
  /\ output[1].data = <<1, 1, 0, 1, 0, 0, 0, 0>>

RECURSIVE FindingsMatch(_, _)
\* the findings are those of the items of the list that carry a value type,
\* one for each in the order of the list, with the value type and concept
\* name of the item, and so at every depth below
FindingsMatch(items, findings) ==
  LET kept == SelectSeq(items, Decodable) IN
    /\ Len(findings) = Len(kept)
    /\ \A k \in 1..Len(kept) :
         /\ findings[k].valueType = kept[k].valueType[1]
         /\ findings[k].conceptName = OrDefault(OrElse(kept[k].conceptName, ""), "Finding")
         /\ FindingsMatch(ItemsOf(kept[k]), OrElse(findings[k].children, <<>>))

(* C19: at every level of a structured report the findings are exactly the
   content items that carry a value type, in source order; an item without
   a value type gives no finding and no error, and so recursively for the
   nested content sequence of each item. *)
C19_FindingsInOrder ==
  op = "parseSR" =>
    /\ output.type = "report"
    /\ FindingsMatch(ItemsOf(ReportWith(input)), output.data.findings)

\* a report of a text item, an item without a value type and a measurement:
\* two findings, the text first
C19_Witness ==
  /\ op = "parseSR"
  /\ input = Some(<< TextItem, NoValueTypeItem, NumItem >>)
  /\ Len(output.data.findings) = 2
  /\ output.data.findings[1].valueType = "TEXT"
  /\ output.data.findings[2].valueType = "NUM"

\* the value types that parseContentItem has a case for
KnownValueTypes == { "TEXT", "NUM", "CODE", "IMAGE", "CONTAINER" }

RECURSIVE UnknownTypesShown(_, _)
\* every finding of an item of another value type shows the concept name of
\* the item, or the value type when the item has none, and has for children
\* the findings of its nested items, at every depth
UnknownTypesShown(items, findings) ==
  LET kept == SelectSeq(items, Decodable) IN
    /\ Len(findings) = Len(kept)
    /\ \A k \in 1..Len(kept) :
         /\ kept[k].valueType[1] \notin KnownValueTypes =>
              /\ findings[k].valueType = kept[k].valueType[1]
              /\ findings[k].value = IF Falsy(kept[k].conceptName)
                                     THEN kept[k].valueType[1]
                                     ELSE kept[k].conceptName[1]
              /\ findings[k].children = None
                   <=> SelectSeq(ItemsOf(kept[k]), Decodable) = <<>>
         /\ UnknownTypesShown(ItemsOf(kept[k]), OrElse(findings[k].children, <<>>))

(* C20: a content item whose value type is none of TEXT, NUM, CODE, IMAGE,
   CONTAINER decodes to a finding: its value is the concept name when it
   has one and the value type otherwise, and its nested content sequence is
   decoded as children like that of any item. *)
C20_UnknownTypeShown ==
  op = "parseSR" =>
    /\ output.type = "report"
    /\ UnknownTypesShown(ItemsOf(ReportWith(input)), output.data.findings)

\* a DATE item without a concept name holding a DATE item with one
C20_Witness ==
  /\ op = "parseSR"
  /\ input = Some(<< WithItems(DateItem, << NamedDateItem >>) >>)
  /\ Len(output.data.findings) = 1
  /\ output.data.findings[1].value = "DATE"
  /\ output.data.findings[1].children[1][1].value = "Study date"

\* the first n elements of a list, or all of it when it is shorter
Prefix(list, n) == SubSeq(list, 1, IF n <= Len(list) THEN n ELSE Len(list))

(* C21: for a graphic object with a type and a declared point count n, the
   coordinates decoded are the 2n floats of the Graphic Data element at
   float indices 0 .. 2n-1, in index order; when the element holds fewer
   floats than 2n, decoding does not throw and keeps only the floats of the
   element (an object without coordinates gives no annotation). *)
C21_DeclaredFloats ==
  (op = "parseGraphicObject" /\ ~Falsy(input.graphicType)
     /\ input.graphicData # None /\ input.numPoints # None) =>
    LET expected == Prefix(input.graphicData[1].floats, 2 * input.numPoints[1]) IN
      /\ ~output.threw
      /\ IF expected = <<>> THEN output.list = <<>>
         ELSE /\ Len(output.list) = 1
              /\ output.list[1].graphicData = expected

\* the position is given: a string of at least two parts, all numbers
Usable(position) ==
  /\ position # None
  /\ Len(position[1]) >= 2
  /\ \A k \in 1..Len(position[1]) : position[1][k] # None

\* the parts of a position string that are numbers
NumbersOf(position) ==
  LET numeric == SelectSeq(position[1], LAMBDA part : part # None) IN
    [k \in 1..Len(numeric) |-> numeric[k][1]]

(* C22 as stated: a text object with a non-empty text value yields one TEXT
   annotation, positioned at the anchor point when that field is present,
   otherwise at the bounding box top-left corner when that field is present,
   otherwise at (0,0); a text object is dropped only when its text value is
   absent or empty. *)
C22_AnchorIfPresent ==
  op = "parseTextObject" =>
    IF Falsy(input.textValue) THEN output = <<>>
    ELSE /\ Len(output) = 1
         /\ output[1].graphicType = "TEXT"
         /\ output[1].textValue = input.textValue
         /\ output[1].graphicData =
              IF input.anchorPoint # None THEN NumbersOf(input.anchorPoint)
              ELSE IF input.topLeft # None THEN NumbersOf(input.topLeft)
              ELSE << 0, 0 >>

(* C22 as amended: a text object with a non-empty text value yields one TEXT
   annotation, positioned at the numbers of the anchor point when that field
   holds at least two parts that are all numbers, otherwise at those of the
   bounding box top-left corner under the same condition, otherwise at
   (0,0); a text object is dropped only when its text value is absent or
   empty. *)
C22_AnchorIfUsable ==
  op = "parseTextObject" =>
    IF Falsy(input.textValue) THEN output = <<>>
    ELSE /\ Len(output) = 1
         /\ output[1].graphicType = "TEXT"
         /\ output[1].textValue = input.textValue
         /\ output[1].graphicData =
              IF Usable(input.anchorPoint) THEN NumbersOf(input.anchorPoint)
              ELSE IF Usable(input.topLeft) THEN NumbersOf(input.topLeft)
              ELSE << 0, 0 >>

\* a label whose anchor point has a part that is no number and whose
\* bounding box corner is absent, placed at (0,0)
C22_Witness ==
  /\ op = "parseTextObject"
  /\ input = TextObject(Some("lesion"), Some(<< Some(3), None >>), None)
  /\ Len(output) = 1
  /\ output[1].graphicData = << 0, 0 >>

(***************************************************************************)
(* The viewer store (store.ts 94-188).  Each action of useViewerStore is   *)
(* an operator from the state before the call to the state after it.  A    *)
(* study is the record of its series, a series the record of its           *)
(* seriesInstanceUID and its images, an image its file path.               *)
(***************************************************************************)
MathMax(a, b) == IF a >= b THEN a ELSE b

MathMin(a, b) == IF a <= b THEN a ELSE b

\* store.ts 106
setView(state, view) == [state EXCEPT !.view = view]

\* store.ts 109-115
setStudy(state, newStudy) ==
  [state EXCEPT
     !.study = Some(newStudy),
     !.currentSeriesId =
        IF Len(newStudy.series) >= 1 THEN Some(newStudy.series[1].seriesInstanceUID)
        ELSE None,
     !.currentSliceIndex = 0,
     !.error = None,
     !.view = "viewer"]

\* store.ts 117-122
clearStudy(state) ==
  [state EXCEPT
     !.study = None,
     !.currentSeriesId = None,
     !.currentSliceIndex = 0,
     !.view = "dashboard"]

\* store.ts 125-128
selectSeries(state, seriesId) ==
  [state EXCEPT !.currentSeriesId = Some(seriesId), !.currentSliceIndex = 0]

\* the same without the return to the first slice
selectSeriesKeepingSlice(state, seriesId) ==
  [state EXCEPT !.currentSeriesId = Some(seriesId)]

\* study?.series.find(s => s.seriesInstanceUID === currentSeriesId)
\* (store.ts 133, 156): the first series of that identifier, if any
FindSeries(state) ==
  IF state.study = None THEN None
  ELSE LET series == state.study[1].series
           found  == { k \in 1..Len(series) :
                         Some(series[k].seriesInstanceUID) = state.currentSeriesId }
       IN IF found = {} THEN None
          ELSE Some(series[CHOOSE k \in found : \A j \in found : k <= j])

\* the same without the clamp
setSliceIndexUnclamped(state, index) ==
  IF FindSeries(state) = None THEN state
  ELSE [state EXCEPT !.currentSliceIndex = index]

\* store.ts 131-138
setSliceIndex(state, index) ==
  LET series == FindSeries(state) IN
    IF series = None THEN state
    ELSE [state EXCEPT !.currentSliceIndex =
            MathMax(0, MathMin(index, Len(series[1].images) - 1))]

\* store.ts 140-143
nextSlice(state) == setSliceIndex(state, state.currentSliceIndex + 1)

\* store.ts 145-148
prevSlice(state) == setSliceIndex(state, state.currentSliceIndex - 1)

\* store.ts 150-152
goToFirstSlice(state) == [state EXCEPT !.currentSliceIndex = 0]

\* store.ts 154-160
goToLastSlice(state) ==
  LET series == FindSeries(state) IN
    IF series # None /\ Len(series[1].images) > 0
    THEN [state EXCEPT !.currentSliceIndex = Len(series[1].images) - 1]
    ELSE state

\* store.ts 163; the progress is null when the caller gives none
setLoading(state, loading, loadingProgress) ==
  [state EXCEPT !.isLoading = loading, !.loadingProgress = loadingProgress]

\* store.ts 165
updateLoadingProgress(state, loadingProgress) ==
  [state EXCEPT !.loadingProgress = Some(loadingProgress)]

\* the same, closing the study as well
setErrorClosingStudy(state, message) ==
  [clearStudy(state) EXCEPT
     !.error = message, !.isLoading = FALSE, !.loadingProgress = None]

\* store.ts 168
setError(state, message) ==
  [state EXCEPT !.error = message, !.isLoading = FALSE, !.loadingProgress = None]

\* store.ts 170
clearError(state) == [state EXCEPT !.error = None]

\* store.ts 173-177: the given fields replace those of the settings
updateSettings(state, newSettings) ==
  [state EXCEPT !.settings =
     [ field \in DOMAIN state.settings |->
         IF field \in DOMAIN newSettings THEN newSettings[field]
         ELSE state.settings[field] ]]

\* store.ts 180-188: everything but the settings
reset(state) == InitialState(state.settings)

(***************************************************************************)
(* The store driven by any sequence of its actions, on studies of at most  *)
(* MaxSeries series of one to MaxImages images each.                       *)
(***************************************************************************)
\* the identifier of the series created k-th
SeriesUid(k) == << "series", k >>

\* a series of n images; the path of an image names its series and its place
SeriesOf(k, n) ==
  [ seriesInstanceUID |-> SeriesUid(k),
    images            |-> [ j \in 1..n |-> << "file", k, j >> ] ]

\* the studies of the model, by the number of images of each series
Studies(maxSeries, maxImages) ==
  { [ series |-> [ k \in 1..Len(counts) |-> SeriesOf(k, counts[k]) ] ] :
      counts \in UNION { [1..n -> 1..maxImages] : n \in 0..maxSeries } }

\* the identifiers selectSeries is called with: those of the model's series
\* and one that no study holds
SeriesIds == { SeriesUid(k) : k \in 1..(MaxSeries + 1) }

\* the indices setSliceIndex is called with
SliceIndices == (0 - 1)..(MaxImages + 1)

ProgressPool == { [ phase |-> "parsing", current |-> 1, total |-> 2 ] }

ErrorPool == { None, Some("Failed to open folder") }

SettingsPool == { [ expertMode |-> b ] : b \in BOOLEAN }

InitStore ==
  /\ LoaderIdle
  /\ op = "none"
  /\ input = None
  /\ output = None
  /\ store = InitialState(DEFAULT_SETTINGS)
  /\ RendererIdle
  /\ ViewportIdle
  /\ MainIdle

StoreFrame == UNCHANGED << loadVars, decoderVars, rendererVars, viewportVars, mainVars >>

SetView ==
  /\ \E view \in { "dashboard", "viewer" } : store' = setView(store, view)
  /\ StoreFrame

SetStudy ==
  /\ \E newStudy \in Studies(MaxSeries, MaxImages) : store' = setStudy(store, newStudy)
  /\ StoreFrame

ClearStudy ==
  /\ store' = clearStudy(store)
  /\ StoreFrame

SelectSeries ==
  /\ \E seriesId \in SeriesIds : store' = selectSeries(store, seriesId)
  /\ StoreFrame

SetSliceIndex ==
  /\ \E index \in SliceIndices : store' = setSliceIndex(store, index)
  /\ StoreFrame

NextSlice ==
  /\ store' = nextSlice(store)
  /\ StoreFrame

PrevSlice ==
  /\ store' = prevSlice(store)
  /\ StoreFrame

GoToFirstSlice ==
  /\ store' = goToFirstSlice(store)
  /\ StoreFrame

GoToLastSlice ==
  /\ store' = goToLastSlice(store)
  /\ StoreFrame

SetLoading ==
  /\ \E loading \in BOOLEAN, loadingProgress \in { None } \cup { Some(p) : p \in ProgressPool } :
       store' = setLoading(store, loading, loadingProgress)
  /\ StoreFrame

UpdateLoadingProgress ==
  /\ \E loadingProgress \in ProgressPool : store' = updateLoadingProgress(store, loadingProgress)
  /\ StoreFrame

SetError ==
  /\ \E message \in ErrorPool : store' = setError(store, message)
  /\ StoreFrame

ClearError ==
  /\ store' = clearError(store)
  /\ StoreFrame

UpdateSettings ==
  /\ \E newSettings \in SettingsPool : store' = updateSettings(store, newSettings)
  /\ StoreFrame

Reset ==
  /\ store' = reset(store)
  /\ StoreFrame

NextStore ==
  \/ SetView
  \/ SetStudy
  \/ ClearStudy
  \/ SelectSeries
  \/ SetSliceIndex
  \/ NextSlice
  \/ PrevSlice
  \/ GoToFirstSlice
  \/ GoToLastSlice
  \/ SetLoading
  \/ UpdateLoadingProgress
  \/ SetError
  \/ ClearError
  \/ UpdateSettings
  \/ Reset

SpecStore == InitStore /\ [][NextStore]_vars

\* the selected series is in the study and the slice shown is its last one
OnLastSlice(state) ==
  /\ FindSeries(state) # None
  /\ state.currentSliceIndex = Len(FindSeries(state)[1].images) - 1

(* C23: after any sequence of store actions on studies whose series each
   hold at least one image, currentSliceIndex is never negative and,
   whenever the selected series exists in the study, is smaller than that
   series' image count; nextSlice on the last slice and prevSlice on the
   first slice leave the index unchanged. *)
C23_IndexWithinSeries ==
  /\ store.currentSliceIndex >= 0
  /\ FindSeries(store) # None =>
       store.currentSliceIndex < Len(FindSeries(store)[1].images)
  /\ OnLastSlice(store) =>
       nextSlice(store).currentSliceIndex = store.currentSliceIndex
  /\ store.currentSliceIndex = 0 =>
       prevSlice(store).currentSliceIndex = store.currentSliceIndex

\* the second series of a study is selected and its last slice, the third,
\* is shown, while the first series holds a single image
C23_Witness ==
  /\ store.study # None
  /\ Len(store.study[1].series) = 2
  /\ Len(store.study[1].series[1].images) = 1
  /\ store.currentSeriesId = Some(SeriesUid(2))
  /\ store.currentSliceIndex = 2
  /\ OnLastSlice(store)

(* C27: in every state reachable through the store's actions, view =
   "viewer" implies that study is not null. *)
C27_ViewerHasStudy == store.view = "viewer" => store.study # None

(***************************************************************************)
(* The renderer: App (App.tsx), Dashboard (Dashboard.tsx), Viewer          *)
(* (Viewer.tsx) and Viewport (ErrorDisplay.tsx) around the store, with the *)
(* menu listeners of preload.ts.  App renders Dashboard while view is      *)
(* "dashboard" and Viewer, which holds Viewport, otherwise; a component's  *)
(* effects run when it mounts and their cleanups when it unmounts, the     *)
(* cleanups of a render before its effects.  A registered callback is      *)
(* named by the component that registered it.                              *)
(***************************************************************************)
\* preload.ts 13-18: the callback is added on all four channels
onMenuAction(registered, owner) == Append(registered, owner)

\* preload.ts 19-24: every listener of all four channels is removed
removeMenuListeners(registered) == << >>

\* the listeners after a render that took the view from one value to another
\* (Dashboard.tsx 100-119, ErrorDisplay.tsx 137-151; App's effect, App.tsx
\* 19-38, runs once, when App mounts)
AfterRender(viewBefore, viewAfter, registered, initialized) ==
  IF viewBefore = viewAfter THEN registered
  ELSE IF viewAfter = "viewer" THEN removeMenuListeners(registered)
  ELSE onMenuAction(IF initialized THEN removeMenuListeners(registered) ELSE registered,
                    "Dashboard")

\* the store changes and React renders
Render(newStore) ==
  /\ store' = newStore
  /\ listeners' = AfterRender(store.view, newStore.view, listeners, isInitialized)
  /\ isInitialized' = IF newStore.view = store.view THEN isInitialized ELSE FALSE

Owners(registered) == { registered[k] : k \in 1..Len(registered) }

RemoveAt(list, k) == [ j \in 1..(Len(list) - 1) |-> IF j < k THEN list[j] ELSE list[j + 1] ]

\* Dashboard.tsx 18, 45
OpeningProgress(kind) ==
  IF kind = "folder"
  THEN [ phase |-> "scanning", current |-> 0, total |-> 0 ]
  ELSE [ phase |-> "extracting", current |-> 0, total |-> 0 ]

\* Dashboard.tsx 31, 59
EmptyMessage(kind) ==
  IF kind = "folder" THEN "No DICOM files found in this folder."
  ELSE "No DICOM files found in this ZIP archive."

\* Dashboard.tsx 34, 62, when what was thrown is no Error
FailedMessage(kind) ==
  IF kind = "folder" THEN "Failed to open folder" ELSE "Failed to open ZIP"

\* the studies loadDicomFromFolder returns to the Dashboard: one series of
\* one to MaxImages images
LoadedStudies == { [ series |-> << SeriesOf(1, n) >> ] : n \in 1..MaxImages }

RendererFrame == UNCHANGED << loadVars, decoderVars, viewportVars, mainVars >>

\* App has mounted: Dashboard's effect has run, then App's
InitRenderer ==
  /\ LoaderIdle
  /\ op = "none"
  /\ input = None
  /\ output = None
  /\ store = InitialState(DEFAULT_SETTINGS)
  /\ listeners = onMenuAction(onMenuAction(<< >>, "Dashboard"), "App")
  /\ isInitialized = FALSE
  /\ loads = << >>
  /\ delivered = None
  /\ ViewportIdle
  /\ MainIdle

\* handleOpenFolder / handleOpenZip up to the first await (Dashboard.tsx
\* 14-20, 41-47)
BeginLoad(kind) ==
  /\ store' = setLoading(store, TRUE, Some(OpeningProgress(kind)))
  /\ loads' = Append(loads, [ kind |-> kind, at |-> "dialog" ])
  /\ UNCHANGED << listeners, isInitialized >>

\* a click on one of the two buttons of the Dashboard (Dashboard.tsx 167,
\* 182), which App covers with the loading overlay while isLoading
ClickOpen ==
  /\ store.view = "dashboard"
  /\ ~store.isLoading
  /\ Len(loads) < MaxLoads
  /\ \E kind \in { "folder", "zip" } : BeginLoad(kind)
  /\ UNCHANGED delivered
  /\ RendererFrame

\* the main process sends 'menu-open-folder' or 'menu-open-zip' (main.ts
\* 103, 113) while no open dialog is showing: every registered callback is
\* called, and Dashboard's calls the handler (Dashboard.tsx 103-112)
MenuOpen ==
  /\ Len(loads) < MaxLoads
  /\ \A k \in 1..Len(loads) : loads[k].at # "dialog"
  /\ \E kind \in { "folder", "zip" } :
       /\ IF "Dashboard" \in Owners(listeners) THEN BeginLoad(kind)
          ELSE UNCHANGED << store, loads, listeners, isInitialized >>
       /\ delivered' = Some([ action |-> IF kind = "folder" THEN "open-folder" ELSE "open-zip",
                              ran    |-> listeners,
                              open   |-> store.view = "viewer" /\ store.study # None,
                              closed |-> store'.study = None ])
  /\ RendererFrame

\* the main process sends 'menu-close-study' (main.ts 124): every registered
\* callback is called, and App's calls clearStudy (App.tsx 23-26)
MenuCloseStudy ==
  /\ IF "App" \in Owners(listeners) THEN Render(clearStudy(store))
     ELSE UNCHANGED << store, listeners, isInitialized >>
  /\ delivered' = Some([ action |-> "close-study",
                         ran    |-> listeners,
                         open   |-> store.view = "viewer" /\ store.study # None,
                         closed |-> store'.study = None ])
  /\ UNCHANGED loads
  /\ RendererFrame

\* the dialog is cancelled: openDicomFolder / openDicomZip resolves to null
\* (Dashboard.tsx 21-24, 36)
DialogCancelled ==
  \E k \in 1..Len(loads) :
    /\ loads[k].at = "dialog"
    /\ store' = setLoading(setLoading(store, FALSE, None), FALSE, None)
    /\ loads' = RemoveAt(loads, k)
    /\ UNCHANGED << listeners, isInitialized, delivered >>
    /\ RendererFrame

\* openDicomFolder / openDicomZip rejects (Dashboard.tsx 33-36)
DialogRejected ==
  \E k \in 1..Len(loads) :
    /\ loads[k].at = "dialog"
    /\ store' = setLoading(setError(store, Some(FailedMessage(loads[k].kind))), FALSE, None)
    /\ loads' = RemoveAt(loads, k)
    /\ UNCHANGED << listeners, isInitialized, delivered >>
    /\ RendererFrame

\* a folder or an archive is chosen and loadDicomFromFolder is called
\* (Dashboard.tsx 26, 54)
DialogChosen ==
  \E k \in 1..Len(loads) :
    /\ loads[k].at = "dialog"
    /\ loads' = [loads EXCEPT ![k].at = "loading"]
    /\ UNCHANGED << store, listeners, isInitialized, delivered >>
    /\ RendererFrame

\* loadDicomFromFolder reports progress to updateLoadingProgress
LoadProgress ==
  \E k \in 1..Len(loads) :
    /\ loads[k].at = "loading"
    /\ \E loadingProgress \in ProgressPool :
         store' = updateLoadingProgress(store, loadingProgress)
    /\ UNCHANGED << loads, listeners, isInitialized, delivered >>
    /\ RendererFrame

\* loadDicomFromFolder returns a study (Dashboard.tsx 28-29, 36)
LoadStudy ==
  \E k \in 1..Len(loads) :
    /\ loads[k].at = "loading"
    /\ \E loaded \in LoadedStudies :
         Render(setLoading(setStudy(store, loaded), FALSE, None))
    /\ loads' = RemoveAt(loads, k)
    /\ UNCHANGED delivered
    /\ RendererFrame

\* loadDicomFromFolder returns null (Dashboard.tsx 30-31, 36)
LoadEmpty ==
  \E k \in 1..Len(loads) :
    /\ loads[k].at = "loading"
    /\ store' = setLoading(setError(store, Some(EmptyMessage(loads[k].kind))), FALSE, None)
    /\ loads' = RemoveAt(loads, k)
    /\ UNCHANGED << listeners, isInitialized, delivered >>
    /\ RendererFrame

\* loadDicomFromFolder throws (Dashboard.tsx 33-36)
LoadThrew ==
  \E k \in 1..Len(loads) :
    /\ loads[k].at = "loading"
    /\ store' = setLoading(setError(store, Some(FailedMessage(loads[k].kind))), FALSE, None)
    /\ loads' = RemoveAt(loads, k)
    /\ UNCHANGED << listeners, isInitialized, delivered >>
    /\ RendererFrame

\* something is dropped on the Dashboard (Dashboard.tsx 89-97), which App
\* covers with the loading overlay while isLoading
HandleDrop ==
  /\ store.view = "dashboard"
  /\ ~store.isLoading
  /\ store' = setError(store, Some("To open files, please use the buttons"))
  /\ UNCHANGED << listeners, isInitialized, loads, delivered >>
  /\ RendererFrame

\* the error display is dismissed (App.tsx 43-45)
DismissError ==
  /\ store.error # None
  /\ store' = clearError(store)
  /\ UNCHANGED << listeners, isInitialized, loads, delivered >>
  /\ RendererFrame

\* the expert mode box of the metadata panel is changed (MetadataPanel.tsx 149)
ToggleExpertMode ==
  /\ store.view = "viewer"
  /\ \E checked \in BOOLEAN : store' = updateSettings(store, [ expertMode |-> checked ])
  /\ UNCHANGED << listeners, isInitialized, loads, delivered >>
  /\ RendererFrame

\* Escape is pressed in the Viewer (Viewer.tsx 43-45)
PressEscape ==
  /\ store.view = "viewer"
  /\ Render(clearStudy(store))
  /\ UNCHANGED << loads, delivered >>
  /\ RendererFrame

\* initializeCornerstone resolves in the mounted Viewport (ErrorDisplay.tsx
\* 83-86) and the menu effect runs (ErrorDisplay.tsx 137-147)
ViewportInitialized ==
  /\ store.view = "viewer"
  /\ ~isInitialized
  /\ isInitialized' = TRUE
  /\ listeners' = onMenuAction(listeners, "Viewport")
  /\ UNCHANGED << store, loads, delivered >>
  /\ RendererFrame

NextRenderer ==
  \/ ClickOpen
  \/ MenuOpen
  \/ MenuCloseStudy
  \/ DialogCancelled
  \/ DialogRejected
  \/ DialogChosen
  \/ LoadProgress
  \/ LoadStudy
  \/ LoadEmpty
  \/ LoadThrew
  \/ HandleDrop
  \/ DismissError
  \/ ToggleExpertMode
  \/ PressEscape
  \/ ViewportInitialized

SpecRenderer == InitRenderer /\ [][NextRenderer]_vars

(* C24: while a study is open in the viewer, a 'menu-close-study' event sent
   by the main process always reaches a registered renderer listener and
   clears the study, after any sequence of Dashboard, Viewer and Viewport
   mounts and unmounts. *)
C24_CloseStudyClears ==
  (/\ delivered # None
   /\ delivered[1].action = "close-study"
   /\ delivered[1].open) =>
    /\ delivered[1].ran # << >>
    /\ delivered[1].closed

(* C26: whenever at least one open-folder or open-ZIP load started from the
   Dashboard is still in progress, isLoading is true, including when two
   loads overlap; once no load is in progress, isLoading is false and
   loadingProgress is null. *)
C26_LoadingWhileInProgress ==
  /\ loads # << >> => store.isLoading
  /\ loads = << >> => ~store.isLoading /\ store.loadingProgress = None

\* the study, the selected series, the slice index and the view stay
NavigationUnchanged ==
  /\ store'.study = store.study
  /\ store'.currentSeriesId = store.currentSeriesId
  /\ store'.currentSliceIndex = store.currentSliceIndex
  /\ store'.view = store.view

\* nothing but error, isLoading and loadingProgress changes in the store
OnlyLoadingAndError ==
  store' = [store EXCEPT !.error = store'.error,
                         !.isLoading = store'.isLoading,
                         !.loadingProgress = store'.loadingProgress]

(* C28: a load that ends in the Empty outcome or in an error changes only
   error, isLoading and loadingProgress: the study already held by the
   store, the selected series, the slice index and the view are left
   unchanged (setError, clearError, setLoading, updateLoadingProgress and
   updateSettings never modify them). *)
C28_FailedLoadKeepsStudy ==
  [][ /\ (\/ ClickOpen \/ MenuOpen \/ DialogCancelled \/ DialogRejected \/ DialogChosen
          \/ LoadProgress \/ LoadEmpty \/ LoadThrew) => OnlyLoadingAndError
      /\ (\/ HandleDrop \/ DismissError \/ ToggleExpertMode) => NavigationUnchanged ]_vars

\* a load has ended in the Empty outcome while the study of another load is
\* open in the viewer: the error is shown over that study
C28_Witness ==
  /\ store.error = Some(EmptyMessage("zip"))
  /\ store.view = "viewer"
  /\ store.study # None
  /\ loads = << >>

(***************************************************************************)
(* Viewport's image loading (ErrorDisplay.tsx 104-134) over                *)
(* loadImageToViewport (cornerstone.ts 208-258).  A study of one series of *)
(* MaxImages images is open and Viewport has initialized; every change of  *)
(* the current image starts a call of load(), whose awaits (readFile for a *)
(* file without a cached image id, then setStack) resolve in any order.    *)
(* An image id is named by the file it was registered for; stack is the    *)
(* file given to the last setStack call.                                   *)
(***************************************************************************)
\* store.ts 203-207
CurrentImage(state) ==
  LET series == FindSeries(state) IN
    IF series = None THEN None
    ELSE IF state.currentSliceIndex < Len(series[1].images)
    THEN Some(series[1].images[state.currentSliceIndex + 1])
    ELSE None

\* load() is called for the file (ErrorDisplay.tsx 108-114, 132) and
\* loadImageToViewport runs to its first await (cornerstone.ts 208-225, 245)
BeginRequest(filePath) ==
  /\ loadRequestIdRef' = loadRequestIdRef + 1
  /\ isLoadingImage' = TRUE
  /\ requests' = Append(requests,
       [ requestId |-> loadRequestIdRef + 1,
         filePath  |-> filePath,
         at        |-> IF filePath \in filePathToImageId THEN "setStack" ELSE "readFile" ])
  /\ stack' = IF filePath \in filePathToImageId THEN Some(filePath) ELSE stack
  /\ UNCHANGED filePathToImageId

\* the state updates of load() are made for the latest request only
\* (ErrorDisplay.tsx 118-130)
SettleRequest(k) ==
  isLoadingImage' = IF loadRequestIdRef = requests[k].requestId THEN FALSE
                    ELSE isLoadingImage

ViewportFrame == UNCHANGED << loadVars, decoderVars, rendererVars, mainVars >>

\* the viewer shows the first slice of the study and Viewport has just
\* initialized: its load effect has run for that slice
InitViewport ==
  /\ LoaderIdle
  /\ op = "none"
  /\ input = None
  /\ output = None
  /\ store = setStudy(InitialState(DEFAULT_SETTINGS), [ series |-> << SeriesOf(1, MaxImages) >> ])
  /\ listeners = onMenuAction(<< >>, "Viewport")
  /\ isInitialized = TRUE
  /\ loads = << >>
  /\ delivered = None
  /\ loadRequestIdRef = 1
  /\ requests = << [ requestId |-> 1, filePath |-> << "file", 1, 1 >>, at |-> "readFile" ] >>
  /\ stack = None
  /\ filePathToImageId = {}
  /\ isLoadingImage = TRUE
  /\ MainIdle

\* the slider is moved (AnnotationOverlay.tsx 305-307): the store changes
\* and, the current image being another file, the load effect runs
SlideTo ==
  /\ Len(requests) < MaxRequests
  /\ \E index \in SliceIndices :
       /\ store' = setSliceIndex(store, index)
       /\ CurrentImage(store') # CurrentImage(store)
       /\ BeginRequest(CurrentImage(store')[1])
  /\ ViewportFrame

\* readFile resolves: the image id is registered and cached, and setStack is
\* called (cornerstone.ts 225-245)
ReadFileResolved ==
  \E k \in 1..Len(requests) :
    /\ requests[k].at = "readFile"
    /\ filePathToImageId' = filePathToImageId \cup { requests[k].filePath }
    /\ stack' = Some(requests[k].filePath)
    /\ requests' = [requests EXCEPT ![k].at = "setStack"]
    /\ UNCHANGED << store, loadRequestIdRef, isLoadingImage >>
    /\ ViewportFrame

\* readFile rejects and load() catches (ErrorDisplay.tsx 121-130)
ReadFileRejected ==
  \E k \in 1..Len(requests) :
    /\ requests[k].at = "readFile"
    /\ requests' = [requests EXCEPT ![k].at = "failed"]
    /\ SettleRequest(k)
    /\ UNCHANGED << store, loadRequestIdRef, stack, filePathToImageId >>
    /\ ViewportFrame

\* setStack resolves, the camera is reset and the viewport rendered
\* (cornerstone.ts 245-253), and load() returns (ErrorDisplay.tsx 116-130)
SetStackResolved ==
  \E k \in 1..Len(requests) :
    /\ requests[k].at = "setStack"
    /\ requests' = [requests EXCEPT ![k].at = "done"]
    /\ SettleRequest(k)
    /\ UNCHANGED << store, loadRequestIdRef, stack, filePathToImageId >>
    /\ ViewportFrame

\* setStack rejects (cornerstone.ts 254-257) and load() catches
SetStackRejected ==
  \E k \in 1..Len(requests) :
    /\ requests[k].at = "setStack"
    /\ requests' = [requests EXCEPT ![k].at = "failed"]
    /\ SettleRequest(k)
    /\ UNCHANGED << store, loadRequestIdRef, stack, filePathToImageId >>
    /\ ViewportFrame

NextViewport ==
  \/ SlideTo
  \/ ReadFileResolved
  \/ ReadFileRejected
  \/ SetStackResolved
  \/ SetStackRejected

SpecViewport == InitViewport /\ [][NextViewport]_vars

\* every call of load() has returned
AllCompleted == \A k \in 1..Len(requests) : requests[k].at \in { "done", "failed" }

(* C25: when slice changes start overlapping loadImageToViewport calls, once
   all of them have completed the viewport stack shows the image of the most
   recent request (the current slice), whatever the order in which the calls
   complete; a completion of an older request never replaces the image of a
   newer one.  Stated for runs in which no call fails. *)
C25_LatestRequestShown ==
  (/\ AllCompleted
   /\ \A k \in 1..Len(requests) : requests[k].at = "done") =>
    /\ requests[Len(requests)].filePath = CurrentImage(store)[1]
    /\ stack = CurrentImage(store)

(***************************************************************************)
(* The file access of the main process (main.ts 309-347, 350-381,          *)
(* 466-495).  A path is the record of whether it is absolute and of its    *)
(* segments; its string is a sequence of characters, a segment being       *)
(* written as one or two characters.  The platform is POSIX: sep is "/".   *)
(***************************************************************************)
sep == "/"

\* the characters of a segment
Chars(segment) ==
  IF segment = ".." THEN << ".", "." >>
  ELSE IF segment = "dx" THEN << "d", "x" >>
  ELSE << segment >>

RECURSIVE JoinSegments(_)
JoinSegments(segments) ==
  IF segments = << >> THEN << >>
  ELSE IF Len(segments) = 1 THEN Chars(segments[1])
  ELSE Chars(segments[1]) \o << sep >> \o JoinSegments(Tail(segments))

\* the string of a path
PathString(path) ==
  IF path.absolute THEN << sep >> \o JoinSegments(path.segments)
  ELSE IF path.segments = << >> THEN << "." >>
  ELSE JoinSegments(path.segments)

\* path.normalize: "." segments are dropped and ".." takes back the segment
\* before it; at the root ".." is dropped, and at the head of a relative
\* path it stays
RECURSIVE Resolve(_, _, _)
Resolve(absolute, kept, rest) ==
  IF rest = << >> THEN kept
  ELSE IF Head(rest) = "." THEN Resolve(absolute, kept, Tail(rest))
  ELSE IF Head(rest) = ".."
  THEN IF kept # << >> /\ kept[Len(kept)] # ".."
       THEN Resolve(absolute, SubSeq(kept, 1, Len(kept) - 1), Tail(rest))
       ELSE IF absolute THEN Resolve(absolute, kept, Tail(rest))
       ELSE Resolve(absolute, Append(kept, ".."), Tail(rest))
  ELSE Resolve(absolute, Append(kept, Head(rest)), Tail(rest))

normalize(path) ==
  [ absolute |-> path.absolute, segments |-> Resolve(path.absolute, << >>, path.segments) ]

\* String.prototype.startsWith
StartsWith(string, head) ==
  /\ Len(head) <= Len(string)
  /\ SubSeq(string, 1, Len(head)) = head

\* the same test on the paths as given, without normalize
isPathAllowedRaw(filePath, bases) ==
  \E base \in bases :
    \/ StartsWith(PathString(filePath), PathString(base) \o << sep >>)
    \/ PathString(filePath) = PathString(base)

\* main.ts 310-316
isPathAllowed(filePath, bases) ==
  LET normalized == PathString(normalize(filePath)) IN
    \E base \in bases :
      LET normalizedBase == PathString(normalize(base)) IN
        \/ StartsWith(normalized, normalizedBase \o << sep >>)
        \/ normalized = normalizedBase

AbsolutePath(segments) == [ absolute |-> TRUE, segments |-> segments ]

\* the directories the user chooses in the folder dialog
ChosenFolders == { AbsolutePath(<< >>), AbsolutePath(<< "d" >>) }

\* main.ts 248 and 377: the temporary directory and the extraction directory
\* made in it
TEMP_DIR == AbsolutePath(<< "t" >>)

ExtractDir == AbsolutePath(Append(TEMP_DIR.segments, "e"))

SegmentNames == { "d", "dx", "t", "e", "..", "." }

\* the paths the renderer hands to the two handlers
RequestedPaths(max) ==
  { [ absolute |-> absolute, segments |-> segments ] :
      absolute \in BOOLEAN,
      segments \in UNION { [1..n -> SegmentNames] : n \in 0..max } }

MainFrame == UNCHANGED << loadVars, decoderVars, store, rendererVars, viewportVars >>

InitMain ==
  /\ LoaderIdle
  /\ op = "none"
  /\ input = None
  /\ output = None
  /\ store = InitialState(DEFAULT_SETTINGS)
  /\ RendererIdle
  /\ ViewportIdle
  /\ allowedBasePaths = {}
  /\ dialogs = {}
  /\ access = None

\* 'open-dicom-folder' (main.ts 321-347) when a folder is chosen; with no
\* window or a cancelled dialog the handler returns null and changes nothing
OpenDicomFolder ==
  /\ \E folderPath \in ChosenFolders :
       /\ allowedBasePaths' = allowedBasePaths \cup { folderPath }
       /\ dialogs' = dialogs \cup { folderPath }
  /\ UNCHANGED access
  /\ MainFrame

\* 'open-dicom-zip' (main.ts 350-381) when an archive within maxZipSize is
\* chosen; otherwise the handler returns null or throws before line 381
OpenDicomZip ==
  /\ allowedBasePaths' = allowedBasePaths \cup { ExtractDir }
  /\ dialogs' = dialogs \cup { ExtractDir }
  /\ UNCHANGED access
  /\ MainFrame

\* 'read-file' (main.ts 466-480); the file system decides what follows the
\* path test
HandleReadFile ==
  /\ access = None
  /\ \E filePath \in RequestedPaths(MaxSegments) :
       IF ~isPathAllowed(filePath, allowedBasePaths)
       THEN access' = Some([ handler |-> "read-file", filePath |-> filePath,
                             outcome |-> "Access denied", fileSystem |-> FALSE ])
       ELSE \E answer \in { "buffer", "File exceeds maximum allowed size", "stat failed" } :
              access' = Some([ handler |-> "read-file", filePath |-> filePath,
                               outcome |-> answer, fileSystem |-> TRUE ])
  /\ UNCHANGED << allowedBasePaths, dialogs >>
  /\ MainFrame

\* 'get-file-info' (main.ts 483-495)
HandleGetFileInfo ==
  /\ access = None
  /\ \E filePath \in RequestedPaths(MaxSegments) :
       IF ~isPathAllowed(filePath, allowedBasePaths)
       THEN access' = Some([ handler |-> "get-file-info", filePath |-> filePath,
                             outcome |-> "Access denied", fileSystem |-> FALSE ])
       ELSE \E answer \in { "info", "stat failed" } :
              access' = Some([ handler |-> "get-file-info", filePath |-> filePath,
                               outcome |-> answer, fileSystem |-> TRUE ])
  /\ UNCHANGED << allowedBasePaths, dialogs >>
  /\ MainFrame

NextMain ==
  \/ OpenDicomFolder
  \/ OpenDicomZip
  \/ HandleReadFile
  \/ HandleGetFileInfo

SpecMain == InitMain /\ [][NextMain]_vars

\* the normalized path is the directory or lies under it
Under(filePath, directory) ==
  LET segments == normalize(filePath).segments IN
    /\ filePath.absolute
    /\ Len(directory.segments) <= Len(segments)
    /\ SubSeq(segments, 1, Len(directory.segments)) = directory.segments

(* C29: the read-file and get-file-info handlers give access only to paths
   that, after normalization, equal or lie under a directory the user chose
   in an open dialog or an extraction directory the app created; every
   other path is rejected with 'Access denied' before any file-system
   access, and the set of allowed base paths changes only through those two
   dialogs. *)
C29_AccessWithinChosen ==
  /\ allowedBasePaths = dialogs
  /\ access # None =>
       IF \E directory \in dialogs : Under(access[1].filePath, directory)
       THEN TRUE
       ELSE /\ access[1].outcome = "Access denied"
            /\ ~access[1].fileSystem

\* a path that leaves the chosen folder through ".." for its sibling of a
\* longer name is rejected, the folder and the extraction directory being
\* allowed
C29_Witness ==
  /\ allowedBasePaths = { AbsolutePath(<< "d" >>), ExtractDir }
  /\ access # None
  /\ access[1].filePath = AbsolutePath(<< "d", "..", "dx" >>)
  /\ access[1].outcome = "Access denied"

(***************************************************************************)
(* The file limit of the main process: scanForDicomFiles (main.ts 278-307) *)
(* and the extraction loop of 'open-dicom-zip' (main.ts 390-428), with the *)
(* limit as a parameter.  A directory is the list of its entries as        *)
(* readdir gives them; the path of an entry is the list of the places that *)
(* lead to it.                                                             *)
(***************************************************************************)
\* main.ts 21
DICOM_EXTENSIONS == { ".dcm", ".dicom", ".ima" }

\* String.prototype.toLowerCase, on the extensions of the model
toLowerCase(ext) ==
  IF ext = ".DCM" THEN ".dcm"
  ELSE IF ext = ".IMA" THEN ".ima"
  ELSE ext

\* the test of the limit passed only beyond it
LimitExceeded(found, limit) == Len(found) > limit

\* main.ts 299, 425
LimitReached(found, limit) == Len(found) >= limit

\* scan (main.ts 281-303) from entry k of a directory on
RECURSIVE scan(_, _, _, _, _)
scan(currentPath, entries, k, found, limit) ==
  IF k > Len(entries) THEN found
  ELSE LET entry    == entries[k]
           fullPath == Append(currentPath, k)
           after    ==
             IF entry.kind = "directory"
             THEN scan(fullPath, entry.entries, 1, found, limit)
             ELSE IF /\ entry.kind = "file"
                     /\ \/ toLowerCase(entry.ext) \in DICOM_EXTENSIONS
                        \/ toLowerCase(entry.ext) = ""
             THEN Append(found, fullPath)
             ELSE found
       IN IF LimitReached(after, limit) THEN after
          ELSE scan(currentPath, entries, k + 1, after, limit)

\* main.ts 278-307
scanForDicomFiles(directory, limit) == scan(<< >>, directory.entries, 1, << >>, limit)

\* the extraction loop (main.ts 390-428) from entry k of the archive on
RECURSIVE extract(_, _, _, _)
extract(entries, k, savedPaths, limit) ==
  IF k > Len(entries) THEN savedPaths
  ELSE LET entry == entries[k]
           skipped ==
             \/ entry.endsWithSlash
             \/ /\ toLowerCase(entry.ext) \notin DICOM_EXTENSIONS
                /\ toLowerCase(entry.ext) # ""
             \/ entry.startsWithDotDot
       IN IF skipped THEN extract(entries, k + 1, savedPaths, limit)
          ELSE IF LimitReached(Append(savedPaths, << k >>), limit)
          THEN Append(savedPaths, << k >>)
          ELSE extract(entries, k + 1, Append(savedPaths, << k >>), limit)

File(ext) == [ kind |-> "file", ext |-> ext ]

Directory(entries) == [ kind |-> "directory", entries |-> entries ]

\* an entry that is neither a file nor a directory, as a symbolic link is
SymbolicLink == [ kind |-> "other" ]

ListsOf(pool, max) == UNION { [1..n -> pool] : n \in 0..max }

\* the entries of a directory below the one scanned: two kinds of file and
\* a directory of two files
InnerEntries ==
  { File(".dcm"), File(".txt"), Directory(<< File(".dcm"), File("") >>) }

\* the directories handed to scanForDicomFiles
DirectoryTrees(max) ==
  { Directory(entries) :
      entries \in ListsOf({ File(".DCM"), File(""), File(".txt"), SymbolicLink }
                            \cup { Directory(inner) : inner \in ListsOf(InnerEntries, max) },
                          max) }

ZipEntry(endsWithSlash, ext, startsWithDotDot) ==
  [ endsWithSlash |-> endsWithSlash, ext |-> ext, startsWithDotDot |-> startsWithDotDot ]

\* the archives handed to the extraction loop: a directory entry, files
\* kept and skipped by their extension, and a file whose path leaves the
\* extraction directory
Archives(max) ==
  ListsOf({ ZipEntry(TRUE, "", FALSE), ZipEntry(FALSE, ".dcm", FALSE),
            ZipEntry(FALSE, "", FALSE), ZipEntry(FALSE, ".txt", FALSE),
            ZipEntry(FALSE, ".IMA", TRUE) }, max)

\* the limits of the model
Limits == { ScanLimit, maxFilesPerStudy }

InitScan ==
  /\ LoaderIdle
  /\ AppIdle
  /\ op = "none"
  /\ input = None
  /\ output = None

ScanForDicomFiles ==
  /\ op = "none"
  /\ \E directory \in DirectoryTrees(MaxEntries), limit \in Limits :
       /\ input' = [ directory |-> directory, limit |-> limit ]
       /\ output' = scanForDicomFiles(directory, limit)
  /\ op' = "scanForDicomFiles"
  /\ UNCHANGED << loadVars, appVars >>

ExtractZip ==
  /\ op = "none"
  /\ \E entries \in Archives(ScanLimit + 1), limit \in Limits :
       /\ input' = [ entries |-> entries, limit |-> limit ]
       /\ output' = extract(entries, 1, << >>, limit)
  /\ op' = "extract"
  /\ UNCHANGED << loadVars, appVars >>

NextScan ==
  \/ ScanForDicomFiles
  \/ ExtractZip

SpecScan == InitScan /\ [][NextScan]_vars

\* every file of a directory that the scan takes by its name, in the order
\* of the walk, whatever their number
RECURSIVE Eligible(_, _)
Eligible(currentPath, entries) ==
  Flatten([ k \in 1..Len(entries) |->
              IF entries[k].kind = "directory"
              THEN Eligible(Append(currentPath, k), entries[k].entries)
              ELSE IF entries[k].kind = "file" /\ entries[k].ext \in { ".dcm", ".DCM", "" }
              THEN << Append(currentPath, k) >>
              ELSE << >> ])

\* every entry of an archive that the extraction takes, in order
Extractable(entries) ==
  SelectSeq([ k \in 1..Len(entries) |-> << k >> ],
            LAMBDA place :
              /\ ~entries[place[1]].endsWithSlash
              /\ ~entries[place[1]].startsWithDotDot
              /\ entries[place[1]].ext \in { ".dcm", "" })

(* C30: for any directory tree, scanForDicomFiles terminates and returns at
   most maxFilesPerStudy paths: once the limit is reached no further file is
   added at any recursion level; ZIP extraction likewise saves at most
   maxFilesPerStudy files.  What is returned is the first files of the walk,
   up to the limit. *)
C30_AtMostLimit ==
  /\ op = "scanForDicomFiles" =>
       /\ Len(output) <= input.limit
       /\ output = Prefix(Eligible(<< >>, input.directory.entries), input.limit)
  /\ op = "extract" =>
       /\ Len(output) <= input.limit
       /\ output = Prefix(Extractable(input.entries), input.limit)

\* the limit is reached inside a directory of a directory while files
\* follow at both levels above: none of them is returned
C30_Witness ==
  /\ op = "scanForDicomFiles"
  /\ input.limit = ScanLimit
  /\ Len(output) = ScanLimit
  /\ Len(output[ScanLimit]) = 3
  /\ Len(Eligible(<< >>, input.directory.entries)) >= ScanLimit + 2
  /\ \E k \in 1..Len(input.directory.entries) :
       /\ k > output[ScanLimit][1]
       /\ input.directory.entries[k].kind = "file"
       /\ input.directory.entries[k].ext = ""

====
